---- MODULE Spec2Model ----
(***************************************************************************)
(* neon-builder: the content generation pipeline.                          *)
(*                                                                         *)
(* generateChunk  - one completion request with its retry loop             *)
(*                  (src/src/generators/content-generator.js:83-160)       *)
(* generateSection - the chunk loop of one section, usage accumulation     *)
(*                  and the onProgress callback (same file, 174-216)       *)
(* cost tracker   - getModelPricing, calculateCost, createCostTracker      *)
(*                  (src/src/config/index.js:269-419)                      *)
(* archives       - createSectionZip, createMasterZip                      *)
(*                  (src/src/generators/zip-packager.js:50-200)            *)
(* build          - processSection and build, the coordinator              *)
(*                  (src/unnamed/part_000:451-625)                         *)
(* main           - the command line entry and its exit codes              *)
(*                  (src/unnamed/part_000:674-708)                         *)
(*                                                                         *)
(* Six specifications share the variables: Spec (a caller of               *)
(* generateChunk or generateSection), TrackerSpec (a holder of a cost      *)
(* tracker), ZipSpec (a caller of createSectionZip or createMasterZip),    *)
(* BuildSpec (a caller of build), BuildFairSpec (a build whose awaits      *)
(* all settle) and MainSpec (the process running main).                    *)
(*                                                                         *)
(* An action is one run-to-completion step of the JavaScript code: the     *)
(* code between two awaits.  The OpenAI client, the timer behind sleep()   *)
(* and the onProgress callback are the environment; what they answer is    *)
(* chosen with \E.                                                         *)
(*                                                                         *)
(* An optional value (a JavaScript value that may be undefined or null)    *)
(* is a sequence: <<>> when absent, <<v>> when present.                    *)
(***************************************************************************)
EXTENDS Integers, Sequences, FiniteSets, TLC

VARIABLES
    entry,          \* the exported function the caller invoked
    options,        \* the options object the caller passed
    pc,             \* where the single thread of control stands
    settled,        \* the promise the caller holds: pending, fulfilled, rejected
    section,        \* generateSection: const section (optional)
    i,              \* generateSection: the loop variable, = chunkIndex of the call
    chunks,         \* generateSection: const chunks = []
    totalUsage,     \* generateSection: const totalUsage
    chunkReturn,    \* the value generateChunk returned to generateSection (optional)
    attempt,        \* generateChunk: the loop variable
    lastError,      \* generateChunk: let lastError (optional)
    attempts,       \* the requests of the generateChunk call in progress, in order
    sleeps,         \* the sleep(ms) calls of the generateChunk call in progress
    clientCalls,    \* how often client.chat.completions.create was invoked in the run
    callOrder,      \* the chunkIndex of every generateChunk call of the run, in order
    responses,      \* the non-empty completions the client returned, in order
    progressCalls,  \* the arguments of every onProgress call, in order
    tracker,        \* the cost tracker: its model, totalUsage and totalCost
    added,          \* the usage objects passed to tracker.addUsage, in order
    sectionWork,    \* build: const sectionWork, the sections to process
    buildTotal,     \* build: let totalChunks
    w,              \* build: the position of the for-of loop in sectionWork
    contents,       \* processSection: const contents = []
    pdfPath,        \* processSection: let pdfPath (optional)
    results,        \* build: const results = []
    zipPaths,       \* build: const zipPaths = []
    progressBar,    \* build: the total and the value of the progress bar
    disk,           \* the file system: what is stored under each path
    exitCode        \* main: the code process.exit was called with (optional)

vars == <<entry, options, pc, settled, section, i, chunks, totalUsage, chunkReturn,
          attempt, lastError, attempts, sleeps, clientCalls, callOrder, responses,
          progressCalls, tracker, added, sectionWork, buildTotal, w, contents, pdfPath,
          results, zipPaths, progressBar, disk, exitCode>>

\* what no exported function assigns: its inputs and the exit code of the process
inputVars   == <<entry, options, exitCode>>
sectionVars == <<section, i, chunks, totalUsage, progressCalls>>
chunkVars   == <<attempt, lastError, attempts, sleeps>>
trackerVars == <<tracker, added>>
buildVars   == <<sectionWork, buildTotal, w, contents, pdfPath, results, zipPaths,
                 progressBar>>
coordVars   == <<trackerVars, buildVars, disk>>

-----------------------------------------------------------------------------
(* Bounds of the model *)

MaxChunks == 2
MaxRetriesOpt == 2
MaxRetryDelay == 1
MaxAdds == 3
MaxFiles == 3
MaxPaths == 2
MaxBuildRetries == 2
MaxLongBuildRetries == 1
MaxOverride == 1

-----------------------------------------------------------------------------
(* The section catalog: config/sections.js *)

SECTIONS ==
    << [id |-> "core_prompts",      defaultChunks |-> 12],
       [id |-> "premium_prompts",   defaultChunks |-> 14],
       [id |-> "automation",        defaultChunks |-> 5],
       [id |-> "sales_pages",       defaultChunks |-> 5],
       [id |-> "thank_you",         defaultChunks |-> 5],
       [id |-> "launch_emails",     defaultChunks |-> 2],
       [id |-> "affiliate_toolkit", defaultChunks |-> 4],
       [id |-> "branding",          defaultChunks |-> 2],
       [id |-> "jvzoo_docs",        defaultChunks |-> 3],
       [id |-> "readmes",           defaultChunks |-> 3] >>

SectionIds == {SECTIONS[k].id : k \in 1..Len(SECTIONS)}

\* A plausible slip: an unknown id falls back to the first section.
getSectionByIdOrFirst(id) ==
    LET hits == {k \in 1..Len(SECTIONS) : SECTIONS[k].id = id}
    IN  IF hits = {} THEN <<SECTIONS[1]>>
        ELSE <<SECTIONS[CHOOSE k \in hits : \A j \in hits : k <= j]>>

\* SECTIONS.find((section) => section.id === id): the first match, or undefined
getSectionById(id) ==
    LET hits == {k \in 1..Len(SECTIONS) : SECTIONS[k].id = id}
    IN  IF hits = {} THEN <<>>
        ELSE <<SECTIONS[CHOOSE k \in hits : \A j \in hits : k <= j]>>

-----------------------------------------------------------------------------
(* The inputs *)

DefaultMaxRetries == 3
DefaultRetryDelay == 1000

Optional(S) == {<<>>} \cup {<<v>> : v \in S}

SectionIdInputs == {"core_prompts", "branding", "unknown_section_xyz"}

\* generateChunk called directly, as the tests do: chunk 0 of 1
ChunkCallOptions ==
    [sectionId  : {"core_prompts"},
     numChunks  : {1},
     maxRetries : Optional(0..MaxRetriesOpt),
     retryDelay : Optional(0..MaxRetryDelay),
     onProgress : {FALSE}]

SectionCallOptions ==
    [sectionId  : SectionIdInputs,
     numChunks  : 0..MaxChunks,
     maxRetries : Optional(0..MaxRetriesOpt),
     retryDelay : Optional(0..MaxRetryDelay),
     onProgress : BOOLEAN]

\* DEFAULT_CONFIG, the fields the build reads (pdf-generator.js:430-470); a
\* model name is the sequence of its characters
DEFAULT_CONFIG ==
    [rootFolder   |-> "NeonPromptEngine",
     outputDir    |-> "dist",
     model        |-> <<"g","p","t","-","4">>,
     maxRetries   |-> 3,
     retryDelay   |-> 1000,
     generatePDFs |-> TRUE]

\* the models a user or the environment may name
UserModel == <<"g","p","t","-","4","o","-","m","i","n","i">>
EnvModel  == <<"g","p","t","-","3",".","5","-","t","u","r","b","o">>

\* the section selections of a build with at most one section to process:
\* one section, an unknown id before and after a known one, and none
ShortSelections ==
    { <<"branding">>,
      <<"unknown_section_xyz", "branding">>,
      <<"branding", "unknown_section_xyz">>,
      <<>> }

\* the selections with two sections to process
LongSelections == { <<"launch_emails", "branding">> }

\* chunkOverrides: no entry, or one entry for a section
ChunkOverridesInputs ==
    {<<>>} \cup { <<[sectionId |-> "branding", numChunks |-> n]>> : n \in 0..MaxOverride }

\* build(config, apiKey) with the environment it reads: the fields of config,
\* apiKey and process.env.NEON_MODEL side by side.  The builds of one section
\* retry more often than the builds of two.
BuildCallOptions ==
    [apiKey           : Optional({"sk-test"}),
     NEON_MODEL       : Optional({EnvModel}),
     model            : {<<UserModel>>},
     maxRetries       : { <<n>> : n \in 0..MaxBuildRetries },
     retryDelay       : {<<>>},
     generatePDFs     : {<<>>, <<FALSE>>},
     selectedSections : ShortSelections,
     chunkOverrides   : ChunkOverridesInputs]
    \cup
    [apiKey           : {<<"sk-test">>},
     NEON_MODEL       : {<<>>},
     model            : {<<UserModel>>},
     maxRetries       : { <<n>> : n \in 0..MaxLongBuildRetries },
     retryDelay       : {<<>>},
     generatePDFs     : {<<>>, <<FALSE>>},
     selectedSections : LongSelections,
     chunkOverrides   : ChunkOverridesInputs]

\* what main() gets from the key store and from runAllPrompts, with NEON_MODEL:
\* a key or none, the model the user typed, the checkbox selection, a chunk
\* count between 1 and 100 for every selected section, the advanced options
MainCallOptions ==
    [apiKey           : Optional({"sk-test"}),
     NEON_MODEL       : {<<>>},
     model            : {<<UserModel>>},
     maxRetries       : { <<n>> : n \in 0..MaxBuildRetries },
     retryDelay       : {<<>>},
     generatePDFs     : {<<TRUE>>, <<FALSE>>},
     selectedSections : {<<"branding">>},
     chunkOverrides   : { <<[sectionId |-> "branding", numChunks |-> n]>> :
                             n \in 1..MaxChunks }]

\* the code of build and of processSection is running, called by a test or by main
InBuild == entry \in {"build", "main"}

\* getEnvConfig().model: process.env.NEON_MODEL || DEFAULT_CONFIG.model
getEnvConfig ==
    [model |-> IF options.NEON_MODEL # <<>> /\ options.NEON_MODEL[1] # <<>>
               THEN options.NEON_MODEL[1] ELSE DEFAULT_CONFIG.model]

\* mergeConfig({ ...config, ...envConfig }): the environment's fields replace
\* the user's, and a field left undefined keeps its default
mergedConfig ==
    [rootFolder       |-> DEFAULT_CONFIG.rootFolder,
     outputDir        |-> DEFAULT_CONFIG.outputDir,
     model            |-> getEnvConfig.model,
     maxRetries       |-> IF options.maxRetries = <<>> THEN DEFAULT_CONFIG.maxRetries
                          ELSE options.maxRetries[1],
     retryDelay       |-> IF options.retryDelay = <<>> THEN DEFAULT_CONFIG.retryDelay
                          ELSE options.retryDelay[1],
     generatePDFs     |-> IF options.generatePDFs = <<>> THEN DEFAULT_CONFIG.generatePDFs
                          ELSE options.generatePDFs[1],
     selectedSections |-> options.selectedSections,
     chunkOverrides   |-> options.chunkOverrides]

\* A plausible slip: maxRetries || 3, which replaces 0 too
maxRetriesOrDefault ==
    IF InBuild
    THEN (IF mergedConfig.maxRetries = 0 THEN DefaultMaxRetries ELSE mergedConfig.maxRetries)
    ELSE IF options.maxRetries = <<>> \/ options.maxRetries[1] = 0 THEN DefaultMaxRetries
    ELSE options.maxRetries[1]

\* const { ..., maxRetries = 3, retryDelay = 1000 } = options; the build passes
\* config.maxRetries ?? 3 and config.retryDelay ?? 1000 of the merged config
maxRetries ==
    IF InBuild THEN mergedConfig.maxRetries
    ELSE IF options.maxRetries = <<>> THEN DefaultMaxRetries ELSE options.maxRetries[1]
retryDelay ==
    IF InBuild THEN mergedConfig.retryDelay
    ELSE IF options.retryDelay = <<>> THEN DefaultRetryDelay ELSE options.retryDelay[1]

\* the chunkIndex / totalChunks options of the generateChunk call in progress
chunkIndex  == IF entry = "generateChunk" THEN 0 ELSE i
totalChunks == IF InBuild THEN sectionWork[w].numChunks ELSE options.numChunks

-----------------------------------------------------------------------------
(* The cost accountant: config/index.js:269-419 *)

(* A model name is the sequence of its characters, so that startsWith and    *)
(* toLowerCase are computed on it.  A price is kept in units of 1e-5 USD per *)
(* 1000 tokens, which makes every price of the table an integer; a cost is   *)
(* then tokens * price in units of 1e-8 USD, the value of                    *)
(* (tokens / 1000) * price without the rounding of floating point.           *)

\* MODEL_PRICING, in the order of its keys
MODEL_PRICING ==
    << [key |-> <<"g","p","t","-","4","-","t","u","r","b","o">>,
        pricing |-> [input |-> 1000, output |-> 3000]],
       [key |-> <<"g","p","t","-","4","-","t","u","r","b","o","-","p","r","e","v","i","e","w">>,
        pricing |-> [input |-> 1000, output |-> 3000]],
       [key |-> <<"g","p","t","-","4","-","1","1","0","6","-","p","r","e","v","i","e","w">>,
        pricing |-> [input |-> 1000, output |-> 3000]],
       [key |-> <<"g","p","t","-","4","-","0","1","2","5","-","p","r","e","v","i","e","w">>,
        pricing |-> [input |-> 1000, output |-> 3000]],
       [key |-> <<"g","p","t","-","4">>,
        pricing |-> [input |-> 3000, output |-> 6000]],
       [key |-> <<"g","p","t","-","4","-","0","6","1","3">>,
        pricing |-> [input |-> 3000, output |-> 6000]],
       [key |-> <<"g","p","t","-","4","-","3","2","k">>,
        pricing |-> [input |-> 6000, output |-> 12000]],
       [key |-> <<"g","p","t","-","4","-","3","2","k","-","0","6","1","3">>,
        pricing |-> [input |-> 6000, output |-> 12000]],
       [key |-> <<"g","p","t","-","4","o">>,
        pricing |-> [input |-> 500, output |-> 1500]],
       [key |-> <<"g","p","t","-","4","o","-","2","0","2","4","-","0","5","-","1","3">>,
        pricing |-> [input |-> 500, output |-> 1500]],
       [key |-> <<"g","p","t","-","4","o","-","m","i","n","i">>,
        pricing |-> [input |-> 15, output |-> 60]],
       [key |-> <<"g","p","t","-","4","o","-","m","i","n","i","-","2","0","2","4","-","0","7","-","1","8">>,
        pricing |-> [input |-> 15, output |-> 60]],
       [key |-> <<"g","p","t","-","3",".","5","-","t","u","r","b","o">>,
        pricing |-> [input |-> 50, output |-> 150]],
       [key |-> <<"g","p","t","-","3",".","5","-","t","u","r","b","o","-","0","1","2","5">>,
        pricing |-> [input |-> 50, output |-> 150]],
       [key |-> <<"g","p","t","-","3",".","5","-","t","u","r","b","o","-","1","1","0","6">>,
        pricing |-> [input |-> 100, output |-> 200]],
       [key |-> <<"g","p","t","-","3",".","5","-","t","u","r","b","o","-","i","n","s","t","r","u","c","t">>,
        pricing |-> [input |-> 150, output |-> 200]],
       [key |-> <<"g","p","t","-","3",".","5","-","t","u","r","b","o","-","1","6","k">>,
        pricing |-> [input |-> 300, output |-> 400]] >>

\* const DEFAULT_PRICING = { input: 0.03, output: 0.06 }
DEFAULT_PRICING == [input |-> 3000, output |-> 6000]

UpperCase == <<"A","B","C","D","E","F","G","H","I","J","K","L","M","N","O","P","Q","R","S","T","U","V","W","X","Y","Z">>
LowerCase == <<"a","b","c","d","e","f","g","h","i","j","k","l","m","n","o","p","q","r","s","t","u","v","w","x","y","z">>

\* String.prototype.toLowerCase, on the letters A-Z
ToLowerCase(str) ==
    [k \in 1..Len(str) |->
        IF \E n \in 1..Len(UpperCase) : UpperCase[n] = str[k]
        THEN LowerCase[CHOOSE n \in 1..Len(UpperCase) : UpperCase[n] = str[k]]
        ELSE str[k]]

\* str.startsWith(prefix)
StartsWith(str, prefix) ==
    /\ Len(prefix) <= Len(str)
    /\ SubSeq(str, 1, Len(prefix)) = prefix

\* getModelPricing(model): the exact key, else the first key of the table that
\* is a prefix of the lower-cased name or has it as a prefix, else the default
getModelPricing(model) ==
    LET modelLower == ToLowerCase(model)
        Matches(n) == \/ StartsWith(modelLower, MODEL_PRICING[n].key)
                      \/ StartsWith(MODEL_PRICING[n].key, modelLower)
    IN  IF \E n \in 1..Len(MODEL_PRICING) : MODEL_PRICING[n].key = model
        THEN MODEL_PRICING[CHOOSE n \in 1..Len(MODEL_PRICING) :
                              MODEL_PRICING[n].key = model].pricing
        ELSE IF \E n \in 1..Len(MODEL_PRICING) : Matches(n)
        THEN MODEL_PRICING[CHOOSE n \in 1..Len(MODEL_PRICING) :
                              Matches(n) /\ \A m \in 1..(n - 1) : ~Matches(m)].pricing
        ELSE DEFAULT_PRICING

\* calculateCost(usage, model)
calculateCost(usage, model) ==
    LET pricing    == getModelPricing(model)
        inputCost  == usage.promptTokens * pricing.input
        outputCost == usage.completionTokens * pricing.output
    IN  inputCost + outputCost

\* usage.field || 0
OrZero(usage, field) == IF field \in DOMAIN usage THEN usage[field] ELSE 0

\* A plausible slip: the tracker priced by the default model
createCostTrackerDefaultModel(model) ==
    [model      |-> <<"g","p","t","-","4">>,
     totalUsage |-> [promptTokens |-> 0, completionTokens |-> 0, totalTokens |-> 0],
     totalCost  |-> 0]

\* createCostTracker(model): let totalUsage = { 0, 0, 0 }; let totalCost = 0
createCostTracker(model) ==
    [model      |-> model,
     totalUsage |-> [promptTokens |-> 0, completionTokens |-> 0, totalTokens |-> 0],
     totalCost  |-> 0]

\* A plausible slip: the cost of the call added to the stored cost, with the
\* usage counted before it is accumulated
addUsageStaleCost(t, usage) ==
    [t EXCEPT
        !.totalUsage = [promptTokens     |-> @.promptTokens + OrZero(usage, "promptTokens"),
                        completionTokens |-> @.completionTokens
                                                + OrZero(usage, "completionTokens"),
                        totalTokens      |-> @.totalTokens + OrZero(usage, "totalTokens")],
        !.totalCost  = calculateCost(t.totalUsage, t.model)]

\* A plausible slip: the stored cost is the cost of the usage just added
addUsageCostOfCall(t, usage) ==
    [t EXCEPT
        !.totalUsage = [promptTokens     |-> @.promptTokens + OrZero(usage, "promptTokens"),
                        completionTokens |-> @.completionTokens
                                                + OrZero(usage, "completionTokens"),
                        totalTokens      |-> @.totalTokens + OrZero(usage, "totalTokens")],
        !.totalCost  = calculateCost(
                          [promptTokens     |-> OrZero(usage, "promptTokens"),
                           completionTokens |-> OrZero(usage, "completionTokens")],
                          t.model)]

\* tracker.addUsage(usage) on the tracker t
addUsage(t, usage) ==
    LET sum == [promptTokens     |-> t.totalUsage.promptTokens
                                        + OrZero(usage, "promptTokens"),
                completionTokens |-> t.totalUsage.completionTokens
                                        + OrZero(usage, "completionTokens"),
                totalTokens      |-> t.totalUsage.totalTokens
                                        + OrZero(usage, "totalTokens")]
    IN  [t EXCEPT !.totalUsage = sum,
                  !.totalCost  = calculateCost(sum, t.model)]

\* tracker.getTotalCost()
getTotalCost(t) == t.totalCost

\* tracker.getTotalUsage()
getTotalUsage(t) == t.totalUsage

\* tracker.getSummary(), without the formatted string
getSummary(t) ==
    LET pricing == getModelPricing(t.model)
    IN  [model     |-> t.model,
         pricing   |-> pricing,
         usage     |-> t.totalUsage,
         cost      |-> t.totalCost,
         breakdown |-> [inputCost  |-> t.totalUsage.promptTokens * pricing.input,
                        outputCost |-> t.totalUsage.completionTokens * pricing.output]]

-----------------------------------------------------------------------------
(* The file system and the archives: utils/file-system.js, zip-packager.js *)

(* A file or directory name is a record of its stem and its extension, the  *)
(* extension being the sequence of its characters (empty when the name has  *)
(* none); a path is the sequence of the names from the root.  The disk maps *)
(* every existing path to a directory or to a file with its data.  Data is  *)
(* a record whose field says what was written: text, pdf, entries (an       *)
(* archive) or partial (a write that failed half-way).                      *)

TxtExt == <<".","t","x","t">>
PdfExt == <<".","p","d","f">>
ZipExt == <<".","z","i","p">>
MdExt  == <<".","m","d">>

Dir(stem) == [stem |-> stem, ext |-> <<>>]
File(stem, ext) == [stem |-> stem, ext |-> ext]

\* path.extname(file), path.basename(p), path.dirname(p), path.join(dir, file)
extname(file) == file.ext
basename(path) == path[Len(path)]
dirname(path) == SubSeq(path, 1, Len(path) - 1)
join(dir, file) == Append(dir, file)

Directory == [type |-> "dir"]
FileWith(data) == [type |-> "file", data |-> data]

pathExists(d, path) == path \in DOMAIN d
isFile(d, path) == pathExists(d, path) /\ d[path].type = "file"
isDirectory(d, path) == pathExists(d, path) /\ d[path].type = "dir"

\* fs.ensureDir(dirPath): the directory and every missing ancestor
ensureDir(d, dirPath) ==
    LET ancestors == { SubSeq(dirPath, 1, n) : n \in 1..Len(dirPath) }
    IN  [p \in DOMAIN d \cup ancestors |-> IF p \in DOMAIN d THEN d[p] ELSE Directory]

\* fs.writeFile(filePath, data) on an existing directory
fsWriteFile(d, filePath, data) ==
    [p \in DOMAIN d \cup {filePath} |-> IF p = filePath THEN FileWith(data) ELSE d[p]]

\* writeFile(filePath, content) of utils/file-system.js, and the last two
\* lines of writeZipToFile
writeFile(d, filePath, data) == fsWriteFile(ensureDir(d, dirname(filePath)), filePath, data)

\* fs.readdir(dirPath): the names in the directory
readdir(d, dirPath) ==
    { basename(p) : p \in { q \in DOMAIN d : Len(q) = Len(dirPath) + 1
                                            /\ dirname(q) = dirPath } }

\* the orders in which readdir may list the names of a set
Listings(names) ==
    { l \in [1..Cardinality(names) -> names] :
         \A a, b \in 1..Cardinality(names) : a # b => l[a] # l[b] }

\* A plausible slip: zip.file appends even when the name is taken
zipFileAppend(zip, name, data) == Append(zip, [name |-> name, data |-> data])

\* zip.file(name, data): a new entry, or new data for the entry of that name
zipFile(zip, name, data) ==
    IF \E k \in 1..Len(zip) : zip[k].name = name
    THEN [k \in 1..Len(zip) |-> IF zip[k].name = name
                                THEN [name |-> name, data |-> data] ELSE zip[k]]
    ELSE Append(zip, [name |-> name, data |-> data])

\* the filter of line 63: extensions && !extensions.includes(extname.toLowerCase())
Filtered(extensions, file) ==
    /\ extensions # <<>>
    /\ ToLowerCase(extname(file)) \notin extensions[1]

RECURSIVE addDirectoryToZip(_, _, _, _, _, _)
\* addDirectoryToZip(zip, dirPath, zipPath, { extensions, recursive: false }),
\* readdir having listed the names as files: sub-directories are passed over
addDirectoryToZip(d, zip, dirPath, zipPath, extensions, files) ==
    IF files = <<>> THEN zip
    ELSE LET file     == Head(files)
             filePath == join(dirPath, file)
             next     == IF isFile(d, filePath) /\ ~Filtered(extensions, file)
                         THEN zipFile(zip, join(zipPath, file), d[filePath].data)
                         ELSE zip
         IN  addDirectoryToZip(d, next, dirPath, zipPath, extensions, Tail(files))

\* createSectionZip, lines 145-155: extensions.length > 0 ? extensions : null
SectionZipExtensions(includeSourceFiles, includePdfs) ==
    LET extensions == (IF includeSourceFiles THEN {TxtExt} ELSE {})
                         \cup (IF includePdfs THEN {PdfExt} ELSE {})
    IN  IF extensions # {} THEN <<extensions>> ELSE <<>>

\* createSectionZip: the archive it builds, and the path it writes it to
SectionZip(d, sectionId, sectionDir, includeSourceFiles, includePdfs, files) ==
    addDirectoryToZip(d, <<>>, sectionDir, <<Dir(sectionId)>>,
                      SectionZipExtensions(includeSourceFiles, includePdfs), files)

SectionZipPath(outputDir, sectionId) == join(outputDir, File(sectionId, ZipExt))

ReadmeEntry  == File("README", MdExt)
LicenseEntry == File("LICENSE", TxtExt)

RECURSIVE AddSectionZips(_, _, _)
\* createMasterZip, lines 180-184: every path of the list can be read
AddSectionZips(d, zip, sectionZipPaths) ==
    IF sectionZipPaths = <<>> THEN zip
    ELSE LET zipPath == Head(sectionZipPaths)
         IN  AddSectionZips(d, zipFile(zip, <<basename(zipPath)>>, d[zipPath].data),
                            Tail(sectionZipPaths))

\* createMasterZip, lines 177-196: the archive it builds
MasterZip(d, sectionZipPaths, readmePath, licensePath) ==
    LET sections   == AddSectionZips(d, <<>>, sectionZipPaths)
        withReadme == IF readmePath # <<>> /\ pathExists(d, readmePath[1])
                      THEN zipFile(sections, <<ReadmeEntry>>, d[readmePath[1]].data)
                      ELSE sections
    IN  IF licensePath # <<>> /\ pathExists(d, licensePath[1])
        THEN zipFile(withReadme, <<LicenseEntry>>, d[licensePath[1]].data)
        ELSE withReadme

\* fs.readFile fails on a path that is no file
Readable(d, paths) == \A k \in 1..Len(paths) : isFile(d, paths[k])

-----------------------------------------------------------------------------
(* The environment: what the client answers *)

UsageReports ==
    { <<>>,
      <<[prompt_tokens |-> 1, completion_tokens |-> 2, total_tokens |-> 3]>>,
      <<[prompt_tokens |-> 4, completion_tokens |-> 0, total_tokens |-> 4]>> }

\* choices[0]?.message?.content of the completion of request number n:
\* no choice at all, an empty text, or a text no other request returns
ChoicesOf(n) ==
    { <<>>,
      <<[message |-> [content |-> ""]]>>,
      <<[message |-> [content |-> "Content chunk " \o ToString(n)]]>> }

Completions(n) == [choices : ChoicesOf(n), usage : UsageReports]

\* status 0 stands for an error object without a status property
ClientErrors ==
    { [status |-> 401, message |-> "Incorrect API key provided"],
      [status |-> 429, message |-> "Rate limit reached"],
      [status |-> 500, message |-> "Internal server error"],
      [status |-> 0,   message |-> ""] }

-----------------------------------------------------------------------------
(* generateChunk: content-generator.js:83-160 *)

\* const content = completion.choices[0]?.message?.content
ContentOf(completion) ==
    IF completion.choices = <<>> THEN <<>>
    ELSE <<completion.choices[1].message.content>>

\* A plausible slip: content === undefined instead of !content
IsMissingContent(content) == content = <<>>

\* if (!content): undefined, null and "" are all falsy
IsEmptyContent(content) == content = <<>> \/ content[1] = ""

ZeroUsage == [promptTokens |-> 0, completionTokens |-> 0, totalTokens |-> 0]

\* completion.usage?.prompt_tokens || 0, and so on
ExtractUsage(completion) ==
    IF completion.usage = <<>> THEN ZeroUsage
    ELSE [promptTokens     |-> completion.usage[1].prompt_tokens,
          completionTokens |-> completion.usage[1].completion_tokens,
          totalTokens      |-> completion.usage[1].total_tokens]

\* A plausible slip: the first attempt numbered 0
FirstAttemptZeroBased == 1 - 1

\* for (let attempt = 1; ...
FirstAttempt == 1

\* A plausible slip: attempt < maxRetries
LoopContinuesExclusive(n, max) == n < max

\* A plausible slip: one attempt more than maxRetries
LoopContinuesOnceMore(n, max) == n <= max + 1

\* ...; attempt <= maxRetries; ...
LoopContinues(n, max) == n <= max

\* A plausible slip: 403 taken for the authentication signal
IsAuthErrorForbidden(error) == error.status = 403

\* if (error.status === 401)
IsAuthError(error) == error.status = 401

\* if (error.status === 429)
IsRateLimitError(error) == error.status = 429

\* A plausible slip: the standard backoff applied to a rate limit
RateLimitWaitLinear(delay, n) == delay * n

\* const waitTime = retryDelay * attempt * 2
RateLimitWait(delay, n) == delay * n * 2

\* A plausible slip: a constant delay, as the warning text says
BackoffWaitConstant(delay, n) == delay

\* await sleep(retryDelay * attempt)
BackoffWait(delay, n) == delay * n

\* if (attempt < maxRetries)
HasAttemptsLeft(n, max) == n < max

\* new Error('Empty response from OpenAI API'): an Error has no status
EmptyResponseError == [status |-> 0, message |-> "Empty response from OpenAI API"]

\* new Error('Invalid OpenAI API key')
InvalidKeyError == [message |-> <<"Invalid OpenAI API key">>]

\* `Failed to generate content after ${maxRetries} attempts:
\*  ${lastError?.message || 'Unknown error'}`, the template kept as its parts
ExhaustionError ==
    [message |-> <<"Failed to generate content after ", maxRetries, " attempts: ",
                   IF lastError = <<>> \/ lastError[1].message = ""
                   THEN "Unknown error" ELSE lastError[1].message>>]

\* A plausible slip: generateSection catches the error of a chunk and asks again
ThrowCaughtBySection(error) ==
    IF entry = "generateSection" /\ pc # "idle"
    THEN /\ pc' = "gs_loop"
         /\ UNCHANGED settled
    ELSE /\ pc' = "done"
         /\ settled' = [state |-> "rejected", error |-> error]

\* A plausible slip: the build goes on to the master archive when a section
\* fails
ThrowSkipsToMaster(error) ==
    IF entry = "build" /\ pc \in {"gc_loop", "gc_await", "ps_ensure", "ps_write",
                                   "ps_pdf", "ps_zip"}
    THEN /\ pc' = "b_master"
         /\ UNCHANGED settled
    ELSE /\ pc' = "done"
         /\ settled' = [state |-> "rejected", error |-> error]

\* an exception leaves generateChunk (and generateSection, which catches nothing;
\* build catches it, stops the progress bar and throws it again)
Throw(error) ==
    /\ pc' = "done"
    /\ settled' = [state |-> "rejected", error |-> error]

\* return { content, usage }: to the test, or to the await in generateSection
\* or in processSection
Return(value) ==
    IF entry = "generateChunk"
    THEN /\ pc' = "done"
         /\ settled' = [state |-> "fulfilled", value |-> value]
         /\ UNCHANGED chunkReturn
    ELSE /\ pc' = IF InBuild THEN "ps_resume" ELSE "gs_resume"
         /\ chunkReturn' = <<value>>
         /\ UNCHANGED settled

\* await sleep(ms)
Sleep(ms) ==
    /\ sleeps' = Append(sleeps, [attempt |-> attempt, ms |-> ms])
    /\ pc' = "gc_sleep"

\* the outcome of the request in flight, as the client saw it
Settle(outcome, status, message, hadUsage) ==
    attempts' = [attempts EXCEPT ![Len(attempts)] =
                    [@ EXCEPT !.outcome = outcome, !.status = status,
                              !.message = message, !.hadUsage = hadUsage]]

\* A plausible slip: the rate-limit wait skipped when no attempt is left
CatchWaitsOnlyBeforeRetry(error) ==
    /\ lastError' = <<error>>
    /\ IF IsAuthError(error)
       THEN /\ Throw(InvalidKeyError)
            /\ UNCHANGED <<attempt, sleeps>>
       ELSE IF IsRateLimitError(error) /\ HasAttemptsLeft(attempt, maxRetries)
       THEN /\ Sleep(RateLimitWait(retryDelay, attempt))
            /\ UNCHANGED <<attempt, settled>>
       ELSE IF HasAttemptsLeft(attempt, maxRetries)
       THEN /\ Sleep(BackoffWait(retryDelay, attempt))
            /\ UNCHANGED <<attempt, settled>>
       ELSE /\ attempt' = attempt + 1
            /\ pc' = "gc_loop"
            /\ UNCHANGED <<sleeps, settled>>

\* the catch block, lines 133-154
Catch(error) ==
    /\ lastError' = <<error>>
    /\ IF IsAuthError(error)
       THEN /\ Throw(InvalidKeyError)
            /\ UNCHANGED <<attempt, sleeps>>
       ELSE IF IsRateLimitError(error)
       THEN /\ Sleep(RateLimitWait(retryDelay, attempt))
            /\ UNCHANGED <<attempt, settled>>
       ELSE IF HasAttemptsLeft(attempt, maxRetries)
       THEN /\ Sleep(BackoffWait(retryDelay, attempt))
            /\ UNCHANGED <<attempt, settled>>
       ELSE /\ attempt' = attempt + 1
            /\ pc' = "gc_loop"
            /\ UNCHANGED <<sleeps, settled>>

\* lines 84-100: the call, up to the first loop test
EnterGenerateChunk ==
    /\ attempt' = FirstAttempt
    /\ lastError' = <<>>
    /\ attempts' = <<>>
    /\ sleeps' = <<>>
    /\ callOrder' = Append(callOrder, chunkIndex)
    /\ pc' = "gc_loop"

\* a test calls generateChunk(client, options)
CallGenerateChunk ==
    /\ pc = "idle"
    /\ UNCHANGED coordVars
    /\ entry = "generateChunk"
    /\ EnterGenerateChunk
    /\ UNCHANGED <<inputVars, sectionVars, settled, chunkReturn, clientCalls, responses>>

\* client.chat.completions.create({ model, ... }) as the log keeps it: the
\* prompt's chunk position and, for a build, the model of processSection's
\* `model: config.model`
Request ==
    LET request == [attempt |-> attempt, part |-> chunkIndex + 1, of |-> totalChunks,
                    outcome |-> "pending", status |-> 0, message |-> "",
                    hadUsage |-> FALSE]
    IN  IF InBuild THEN request @@ [model |-> mergedConfig.model]
        ELSE request

\* the loop test, then either the request of lines 102-117 or the throw of 157-159
GenerateChunkLoop ==
    /\ pc = "gc_loop"
    /\ UNCHANGED coordVars
    /\ IF LoopContinues(attempt, maxRetries)
       THEN /\ clientCalls' = clientCalls + 1
            /\ attempts' = Append(attempts, Request)
            /\ pc' = "gc_await"
            /\ UNCHANGED settled
       ELSE /\ Throw(ExhaustionError)
            /\ UNCHANGED <<clientCalls, attempts>>
    /\ UNCHANGED <<inputVars, sectionVars, chunkReturn, attempt, lastError, sleeps,
                   callOrder, responses>>

\* the request resolves with a completion: lines 119-132
ClientFulfils ==
    /\ pc = "gc_await"
    /\ UNCHANGED coordVars
    /\ \E completion \in Completions(clientCalls) :
          LET content == ContentOf(completion) IN
          IF IsEmptyContent(content)
          THEN /\ Settle("empty", 0, "", completion.usage # <<>>)
               /\ Catch(EmptyResponseError)
               /\ UNCHANGED <<chunkReturn, responses>>
          ELSE /\ Settle("text", 0, "", completion.usage # <<>>)
               /\ responses' = Append(responses,
                     [chunkIndex |-> chunkIndex, content |-> content[1],
                      usage |-> completion.usage])
               /\ Return([content |-> content[1], usage |-> ExtractUsage(completion)])
               /\ UNCHANGED <<attempt, lastError, sleeps>>
    /\ UNCHANGED <<inputVars, sectionVars, clientCalls, callOrder>>

\* the request rejects: the catch block with the client's error
ClientRejects ==
    /\ pc = "gc_await"
    /\ UNCHANGED coordVars
    /\ \E error \in ClientErrors :
          /\ Settle("error", error.status, error.message, FALSE)
          /\ Catch(error)
    /\ UNCHANGED <<inputVars, sectionVars, chunkReturn, clientCalls, callOrder, responses>>

\* the timer of sleep() fires: the loop's attempt++ and back to the loop test
SleepElapses ==
    /\ pc = "gc_sleep"
    /\ UNCHANGED coordVars
    /\ attempt' = attempt + 1
    /\ pc' = "gc_loop"
    /\ UNCHANGED <<inputVars, sectionVars, settled, chunkReturn, lastError, attempts,
                   sleeps, clientCalls, callOrder, responses>>

-----------------------------------------------------------------------------
(* generateSection: content-generator.js:174-216 *)

\* A plausible slip: chunks.unshift(content)
UnshiftChunk(list, content) == <<content>> \o list

\* chunks.push(content)
PushChunk(list, content) == Append(list, content)

\* A plausible slip: totalTokens taken from the last chunk instead of summed
AddUsageLastTotal(total, usage) ==
    [promptTokens     |-> total.promptTokens + usage.promptTokens,
     completionTokens |-> total.completionTokens + usage.completionTokens,
     totalTokens      |-> usage.totalTokens]

\* totalUsage.promptTokens += usage.promptTokens, and so on
AddUsage(total, usage) ==
    [promptTokens     |-> total.promptTokens + usage.promptTokens,
     completionTokens |-> total.completionTokens + usage.completionTokens,
     totalTokens      |-> total.totalTokens + usage.totalTokens]

\* A plausible slip: the 1-based chunk number reported
ProgressArgsOneBased(index, value) ==
    [index |-> index + 1, content |-> value.content, usage |-> value.usage]

\* onProgress(i, content, usage)
ProgressArgs(index, value) ==
    [index |-> index, content |-> value.content, usage |-> value.usage]

\* new Error(`Unknown section ID: ${sectionId}`)
UnknownSectionError(sectionId) == [message |-> <<"Unknown section ID: ", sectionId>>]

\* whatever the caller's callback throws
CallbackError == [message |-> <<"onProgress threw">>]

\* a caller calls generateSection(client, options): lines 175-189
CallGenerateSection ==
    /\ pc = "idle"
    /\ UNCHANGED coordVars
    /\ entry = "generateSection"
    /\ section' = getSectionById(options.sectionId)
    /\ IF section' = <<>>
       THEN /\ Throw(UnknownSectionError(options.sectionId))
            /\ UNCHANGED <<i, chunks, totalUsage>>
       ELSE /\ chunks' = <<>>
            /\ totalUsage' = ZeroUsage
            /\ i' = 0
            /\ pc' = "gs_loop"
            /\ UNCHANGED settled
    /\ UNCHANGED <<inputVars, chunkVars, chunkReturn, clientCalls, callOrder, responses,
                   progressCalls>>

\* the loop test of line 191, then the generateChunk call or the return of line 215
GenerateSectionLoop ==
    /\ pc = "gs_loop"
    /\ UNCHANGED coordVars
    /\ IF i < options.numChunks
       THEN /\ EnterGenerateChunk
            /\ UNCHANGED settled
       ELSE /\ pc' = "done"
            /\ settled' = [state |-> "fulfilled",
                           value |-> [chunks |-> chunks, totalUsage |-> totalUsage]]
            /\ UNCHANGED <<chunkVars, callOrder>>
    /\ UNCHANGED <<inputVars, sectionVars, chunkReturn, clientCalls, responses>>

\* the await of line 192 resumes: lines 203-212 and the loop's i++
GenerateSectionResume ==
    /\ pc = "gs_resume"
    /\ UNCHANGED coordVars
    /\ chunks' = PushChunk(chunks, chunkReturn[1].content)
    /\ totalUsage' = AddUsage(totalUsage, chunkReturn[1].usage)
    /\ chunkReturn' = <<>>
    /\ IF options.onProgress
       THEN /\ progressCalls' = Append(progressCalls, ProgressArgs(i, chunkReturn[1]))
            /\ \E callback \in {"returns", "throws"} :
                  IF callback = "returns"
                  THEN /\ i' = i + 1
                       /\ pc' = "gs_loop"
                       /\ UNCHANGED settled
                  ELSE /\ Throw(CallbackError)
                       /\ UNCHANGED i
       ELSE /\ i' = i + 1
            /\ pc' = "gs_loop"
            /\ UNCHANGED <<settled, progressCalls>>
    /\ UNCHANGED <<inputVars, section, chunkVars, clientCalls, callOrder, responses>>

-----------------------------------------------------------------------------
(* The specification *)

\* no tracker, no build and an empty file system
CoordinatorIdle ==
    /\ tracker = <<>>
    /\ added = <<>>
    /\ sectionWork = <<>>
    /\ buildTotal = 0
    /\ w = 0
    /\ contents = <<>>
    /\ pdfPath = <<>>
    /\ results = <<>>
    /\ zipPaths = <<>>
    /\ progressBar = <<>>
    /\ disk = <<>>

\* nothing was called yet
GeneratorIdle ==
    /\ pc = "idle"
    /\ exitCode = <<>>
    /\ settled = [state |-> "pending"]
    /\ section = <<>>
    /\ i = 0
    /\ chunks = <<>>
    /\ totalUsage = ZeroUsage
    /\ chunkReturn = <<>>
    /\ attempt = 0
    /\ lastError = <<>>
    /\ attempts = <<>>
    /\ sleeps = <<>>
    /\ clientCalls = 0
    /\ callOrder = <<>>
    /\ responses = <<>>
    /\ progressCalls = <<>>

Init ==
    /\ \/ entry = "generateChunk" /\ options \in ChunkCallOptions
       \/ entry = "generateSection" /\ options \in SectionCallOptions
    /\ GeneratorIdle
    /\ CoordinatorIdle

Next ==
    \/ CallGenerateChunk
    \/ CallGenerateSection
    \/ GenerateSectionLoop
    \/ GenerateSectionResume
    \/ GenerateChunkLoop
    \/ ClientFulfils
    \/ ClientRejects
    \/ SleepElapses

Spec == Init /\ [][Next]_vars

-----------------------------------------------------------------------------
(* The cost tracker on its own: a caller holds a tracker and adds usage *)

\* the model names a tracker is created with: two keys of the table, a dated
\* upper-case name, a name no key matches, a dated name of the gpt-4o family
\* that is not in the table, and a family name shorter than every key
TrackerModels ==
    { <<"g","p","t","-","4">>,
      <<"g","p","t","-","4","o","-","m","i","n","i">>,
      <<"G","P","T","-","3",".","5","-","t","u","r","b","o","-","0","6","1","3">>,
      <<"o","1","-","p","r","o">>,
      <<"g","p","t","-","4","o","-","2","0","2","4","-","0","8","-","0","6">>,
      <<"g","p","t">> }

\* the usage objects a caller adds: complete ones and ones with fields missing
TrackerUsages ==
    { [promptTokens |-> 1, completionTokens |-> 2, totalTokens |-> 3],
      [promptTokens |-> 1000, completionTokens |-> 500, totalTokens |-> 1500],
      [completionTokens |-> 5],
      [promptTokens |-> 7, totalTokens |-> 0] }

\* tracker.addUsage(usage), called by the holder of the tracker
TrackerAddUsage ==
    /\ entry = "createCostTracker"
    /\ Len(added) < MaxAdds
    /\ \E usage \in TrackerUsages :
          /\ tracker' = addUsage(tracker, usage)
          /\ added' = Append(added, usage)
    /\ UNCHANGED <<inputVars, pc, settled, sectionVars, chunkVars, chunkReturn,
                   clientCalls, callOrder, responses, buildVars, disk>>

TrackerInit ==
    /\ entry = "createCostTracker"
    /\ options \in [model : TrackerModels]
    /\ GeneratorIdle
    /\ tracker = createCostTracker(options.model)
    /\ added = <<>>
    /\ sectionWork = <<>>
    /\ buildTotal = 0
    /\ w = 0
    /\ contents = <<>>
    /\ pdfPath = <<>>
    /\ results = <<>>
    /\ zipPaths = <<>>
    /\ progressBar = <<>>
    /\ disk = <<>>

TrackerNext == TrackerAddUsage

TrackerSpec == TrackerInit /\ [][TrackerNext]_vars

-----------------------------------------------------------------------------
(* The archive builder on its own: a caller calls createSectionZip or      *)
(* createMasterZip on a directory of files (zip-packager.test.js:152-219)  *)

TEST_DIR == <<Dir("tmp")>>
TestSectionDir == join(TEST_DIR, Dir("section"))

\* what the section directory may hold: a text, a PDF, a text with an
\* upper-case extension, a file of another kind and a sub-directory with a PDF
SectionDirCandidates ==
    { <<File("chunk_01", TxtExt)>>,
      <<File("chunk_01", PdfExt)>>,
      <<File("NOTES", <<".","T","X","T">>)>>,
      <<File("readme", MdExt)>>,
      <<Dir("assets")>>,
      <<Dir("assets"), File("logo", PdfExt)>> }

DataOf(relative) ==
    IF extname(basename(relative)) = PdfExt
    THEN [pdf |-> basename(relative).stem] ELSE [text |-> basename(relative).stem]

\* the disks a createSectionZip call may find: the section directory with at
\* most MaxFiles of the candidates, a nested file only inside its directory
SectionZipDisks ==
    { [p \in {TEST_DIR, TestSectionDir} \cup { TestSectionDir \o r : r \in held } |->
          IF p \in {TEST_DIR, TestSectionDir} \/ extname(basename(p)) = <<>>
          THEN Directory
          ELSE FileWith(DataOf(p))] :
      held \in { h \in SUBSET SectionDirCandidates :
                    /\ Cardinality(h) <= MaxFiles
                    /\ \A r \in h : Len(r) > 1 => <<r[1]>> \in h } }

SectionZipOptions ==
    [sectionId          : {"test_section"},
     sectionDir         : {TestSectionDir},
     outputDir          : {TEST_DIR},
     includeSourceFiles : Optional(BOOLEAN),
     includePdfs        : Optional(BOOLEAN)]

\* const { ..., includeSourceFiles = true, includePdfs = true } = options
includeSourceFiles ==
    IF options.includeSourceFiles = <<>> THEN TRUE ELSE options.includeSourceFiles[1]
includePdfs == IF options.includePdfs = <<>> THEN TRUE ELSE options.includePdfs[1]

Section1Zip      == join(TEST_DIR, File("section1", ZipExt))
Section2Zip      == join(TEST_DIR, File("section2", ZipExt))
OtherSection1Zip == join(join(TEST_DIR, Dir("other")), File("section1", ZipExt))
MissingZip       == join(TEST_DIR, File("missing", ZipExt))
ReadmePath       == join(TEST_DIR, File("README", MdExt))
AbsentReadmePath == join(TEST_DIR, File("absent", MdExt))
LicensePath      == join(TEST_DIR, File("LICENSE", TxtExt))

ZipOfOneFile(stem, text) ==
    [entries |-> <<[name |-> <<File(stem, TxtExt)>>, data |-> [text |-> text]]>>]

\* the disk of a createMasterZip call: two section archives, a third one of
\* the same base name in another directory, a README and a LICENSE
MasterZipDisk ==
    LET d1 == writeFile(<<>>, Section1Zip, ZipOfOneFile("file1", "content1"))
        d2 == writeFile(d1, Section2Zip, ZipOfOneFile("file2", "content2"))
        d3 == writeFile(d2, OtherSection1Zip, ZipOfOneFile("file3", "content3"))
        d4 == writeFile(d3, ReadmePath, [text |-> "# Test README"])
    IN  writeFile(d4, LicensePath, [text |-> "MIT"])

RECURSIVE SeqsUpTo(_, _)
\* the sequences over S of length at most n
SeqsUpTo(S, n) ==
    IF n = 0 THEN {<<>>}
    ELSE LET shorter == SeqsUpTo(S, n - 1)
         IN  shorter \cup { Append(q, x) : q \in shorter, x \in S }

MasterZipOptions ==
    [sectionZipPaths : SeqsUpTo({Section1Zip, Section2Zip, OtherSection1Zip, MissingZip,
                                 ReadmePath}, MaxPaths),
     outputPath      : {join(TEST_DIR, File("master", ZipExt))},
     readmePath      : Optional({ReadmePath, AbsentReadmePath}),
     licensePath     : Optional({LicensePath})]

\* an input/output error of the file system
FsError(operation) == [message |-> <<"EIO: i/o error, ", operation>>]

\* what a failed write may leave at the path: nothing new, or a torn file
TornWrites(d, path) == { d, writeFile(d, path, [partial |-> TRUE]) }

\* createSectionZip(options) is called: up to the first await
CallCreateSectionZip ==
    /\ pc = "idle"
    /\ entry = "createSectionZip"
    /\ pc' = "sz_await"
    /\ UNCHANGED <<inputVars, settled, sectionVars, chunkVars, chunkReturn, clientCalls,
                   callOrder, responses, coordVars>>

\* the directory was read and the archive written: lines 154-162
SectionZipResolves ==
    /\ pc = "sz_await"
    /\ entry = "createSectionZip"
    /\ isDirectory(disk, options.sectionDir)
    /\ \E files \in Listings(readdir(disk, options.sectionDir)) :
          LET zip == SectionZip(disk, options.sectionId, options.sectionDir,
                                includeSourceFiles, includePdfs, files)
              outputPath == SectionZipPath(options.outputDir, options.sectionId)
          IN  /\ disk' = writeFile(disk, outputPath, [entries |-> zip])
              /\ settled' = [state |-> "fulfilled", value |-> outputPath]
    /\ pc' = "done"
    /\ UNCHANGED <<inputVars, sectionVars, chunkVars, chunkReturn, clientCalls,
                   callOrder, responses, trackerVars, buildVars>>

\* readdir, stat, readFile or the write failed
SectionZipRejects ==
    /\ pc = "sz_await"
    /\ entry = "createSectionZip"
    /\ disk' \in TornWrites(disk, SectionZipPath(options.outputDir, options.sectionId))
    /\ settled' = [state |-> "rejected", error |-> FsError("createSectionZip")]
    /\ pc' = "done"
    /\ UNCHANGED <<inputVars, sectionVars, chunkVars, chunkReturn, clientCalls,
                   callOrder, responses, trackerVars, buildVars>>

\* createMasterZip(sectionZipPaths, outputPath, options) is called
CallCreateMasterZip ==
    /\ pc = "idle"
    /\ entry = "createMasterZip"
    /\ pc' = "mz_await"
    /\ UNCHANGED <<inputVars, settled, sectionVars, chunkVars, chunkReturn, clientCalls,
                   callOrder, responses, coordVars>>

\* every archive was read and the master archive written: lines 177-199
MasterZipResolves ==
    /\ pc = "mz_await"
    /\ entry = "createMasterZip"
    /\ Readable(disk, options.sectionZipPaths)
    /\ disk' = writeFile(disk, options.outputPath,
                  [entries |-> MasterZip(disk, options.sectionZipPaths,
                                         options.readmePath, options.licensePath)])
    /\ settled' = [state |-> "fulfilled", value |-> options.outputPath]
    /\ pc' = "done"
    /\ UNCHANGED <<inputVars, sectionVars, chunkVars, chunkReturn, clientCalls,
                   callOrder, responses, trackerVars, buildVars>>

\* a readFile or the write failed
MasterZipRejects ==
    /\ pc = "mz_await"
    /\ entry = "createMasterZip"
    /\ disk' \in TornWrites(disk, options.outputPath)
    /\ settled' = [state |-> "rejected", error |-> FsError("createMasterZip")]
    /\ pc' = "done"
    /\ UNCHANGED <<inputVars, sectionVars, chunkVars, chunkReturn, clientCalls,
                   callOrder, responses, trackerVars, buildVars>>

ZipInit ==
    /\ \/ /\ entry = "createSectionZip"
          /\ options \in SectionZipOptions
          /\ disk \in SectionZipDisks
       \/ /\ entry = "createMasterZip"
          /\ options \in MasterZipOptions
          /\ disk = MasterZipDisk
    /\ GeneratorIdle
    /\ tracker = <<>>
    /\ added = <<>>
    /\ sectionWork = <<>>
    /\ buildTotal = 0
    /\ w = 0
    /\ contents = <<>>
    /\ pdfPath = <<>>
    /\ results = <<>>
    /\ zipPaths = <<>>
    /\ progressBar = <<>>

ZipNext ==
    \/ CallCreateSectionZip
    \/ SectionZipResolves
    \/ SectionZipRejects
    \/ CallCreateMasterZip
    \/ MasterZipResolves
    \/ MasterZipRejects

ZipSpec == ZipInit /\ [][ZipNext]_vars

-----------------------------------------------------------------------------
(* The build coordinator: build and processSection, part_000:451-625 *)

\* `${process.cwd()}/${baseOutputDir}/${mergedConfig.rootFolder}`, below cwd
outputDir == <<Dir(mergedConfig.outputDir), Dir(mergedConfig.rootFolder)>>

\* `${outputDir}/${mergedConfig.rootFolder}_complete.zip`
masterZipPath == join(outputDir, File(mergedConfig.rootFolder \o "_complete", ZipExt))

\* processSection: sectionDir, combinedTxtPath and the one PDF of
\* generateSectionPdfs (pdf-generator.js:375-376)
sectionDirOf(id) == join(outputDir, Dir(id))
combinedTxtPathOf(id) == join(sectionDirOf(id), File(id, TxtExt))
pdfPathOf(id) == join(sectionDirOf(id), File(id \o "_chunk_01", PdfExt))

\* the fixed separator of contents.join
Separator == "\n\n---\n\n"

RECURSIVE Join(_, _)
\* list.join(sep)
Join(list, sep) ==
    IF list = <<>> THEN ""
    ELSE IF Len(list) = 1 THEN list[1]
    ELSE list[1] \o sep \o Join(Tail(list), sep)

\* chunkOverrides[sectionId] || section.defaultChunks
numChunksOf(chunkOverrides, sec) ==
    IF /\ chunkOverrides # <<>>
       /\ chunkOverrides[1].sectionId = sec.id
       /\ chunkOverrides[1].numChunks # 0
    THEN chunkOverrides[1].numChunks
    ELSE sec.defaultChunks

RECURSIVE SectionWorkOf(_, _)
\* the loop of lines 552-559: an id getSectionById does not find adds nothing
SectionWorkOf(selectedSections, chunkOverrides) ==
    IF selectedSections = <<>> THEN <<>>
    ELSE LET found == getSectionById(Head(selectedSections))
             rest  == SectionWorkOf(Tail(selectedSections), chunkOverrides)
         IN  IF found # <<>>
             THEN <<[section   |-> found[1],
                     numChunks |-> numChunksOf(chunkOverrides, found[1])]>> \o rest
             ELSE rest

RECURSIVE SumOfChunks(_)
\* totalChunks += numChunks over sectionWork
SumOfChunks(workList) ==
    IF workList = <<>> THEN 0 ELSE Head(workList).numChunks + SumOfChunks(Tail(workList))

\* new Error('OpenAI API key is required. ...') of createOpenAIClient
MissingKeyError ==
    [message |-> <<"OpenAI API key is required. Set OPENAI_API_KEY environment variable.">>]

\* the section processSection works on
workSection == sectionWork[w].section

\* getDirectorySize(outputDir), counted in files instead of bytes
getDirectorySize(d, dirPath) ==
    Cardinality({ p \in DOMAIN d : /\ Len(p) > Len(dirPath)
                                   /\ SubSeq(p, 1, Len(dirPath)) = dirPath
                                   /\ d[p].type = "file" })

\* what the build leaves alone while it waits for the file system
BuildWaits == UNCHANGED <<inputVars, section, chunks, totalUsage, progressCalls,
                          chunkVars, chunkReturn, clientCalls, callOrder, responses>>

\* build(config, apiKey) is called: lines 527-537
CallBuild ==
    /\ pc = "idle"
    /\ entry = "build"
    /\ IF options.apiKey = <<>>
       THEN Throw(MissingKeyError)
       ELSE pc' = "b_ensure" /\ UNCHANGED settled
    /\ BuildWaits
    /\ UNCHANGED <<i, coordVars>>

\* the for-of loop of line 578 has another element after this position
MoreSections(position, workList) == position < Len(workList)

\* A plausible slip: the loop goes on with the last element
NextSectionLast(position, workList) ==
    IF MoreSections(position, workList)
    THEN w' = Len(workList) /\ pc' = "ps_ensure"
    ELSE w' = position /\ pc' = "b_master"

\* the next iteration of the loop of line 578, or the code after it: the
\* call of processSection up to its first await, or of createMasterZip
NextSection(position, workList) ==
    IF MoreSections(position, workList)
    THEN w' = position + 1 /\ pc' = "ps_ensure"
    ELSE w' = position /\ pc' = "b_master"

\* ensureDirectory(outputDir) resolved: lines 539-580
OutputDirEnsured ==
    /\ pc = "b_ensure"
    /\ disk' = ensureDir(disk, outputDir)
    /\ sectionWork' = SectionWorkOf(mergedConfig.selectedSections,
                                    mergedConfig.chunkOverrides)
    /\ buildTotal' = SumOfChunks(sectionWork')
    /\ tracker' = createCostTracker(mergedConfig.model)
    /\ progressBar' = <<[total |-> buildTotal', value |-> 0]>>
    /\ results' = <<>>
    /\ zipPaths' = <<>>
    /\ NextSection(0, sectionWork')
    /\ BuildWaits
    /\ UNCHANGED <<i, settled, added, contents, pdfPath>>

\* ensureDirectory(outputDir) rejected: build has no handler around it
OutputDirFails ==
    /\ pc = "b_ensure"
    /\ Throw(FsError("ensureDirectory"))
    /\ BuildWaits
    /\ UNCHANGED <<i, coordVars>>

\* ensureDirectory(sectionDir) resolved: lines 457-460
SectionDirEnsured ==
    /\ pc = "ps_ensure"
    /\ disk' = ensureDir(disk, sectionDirOf(workSection.id))
    /\ contents' = <<>>
    /\ pdfPath' = <<>>
    /\ i' = 0
    /\ pc' = "ps_loop"
    /\ BuildWaits
    /\ UNCHANGED <<settled, trackerVars, sectionWork, buildTotal, w, results, zipPaths,
                   progressBar>>

\* the loop test of line 460, then the generateChunk call of line 461 or the
\* join and the writeFile call of lines 484-486
ProcessSectionLoop ==
    /\ pc = "ps_loop"
    /\ IF i < sectionWork[w].numChunks
       THEN EnterGenerateChunk
       ELSE pc' = "ps_write" /\ UNCHANGED <<chunkVars, callOrder>>
    /\ UNCHANGED <<inputVars, sectionVars, settled, chunkReturn, clientCalls, responses,
                   coordVars>>

\* A plausible slip: contents holds the last chunk only
PushContentLastOnly(list, content) == <<content>>

\* A plausible slip: contents.unshift(content)
PushContentFront(list, content) == <<content>> \o list

\* contents.push(content)
PushContent(list, content) == Append(list, content)

\* the await of line 461 resumes: lines 472-481 and the loop's i++
ProcessSectionResume ==
    /\ pc = "ps_resume"
    /\ contents' = PushContent(contents, chunkReturn[1].content)
    /\ tracker' = addUsage(tracker, chunkReturn[1].usage)
    /\ added' = Append(added, chunkReturn[1].usage)
    /\ progressBar' = <<[progressBar[1] EXCEPT !.value = @ + 1]>>
    /\ chunkReturn' = <<>>
    /\ i' = i + 1
    /\ pc' = "ps_loop"
    /\ UNCHANGED <<inputVars, section, chunks, totalUsage, progressCalls, chunkVars,
                   settled, clientCalls, callOrder, responses, sectionWork, buildTotal,
                   w, pdfPath, results, zipPaths, disk>>

\* writeFile(combinedTxtPath, combinedContent) resolved: lines 488-508, up to
\* the await of generateSectionPdfs or of createSectionZip
CombinedTextWritten ==
    /\ pc = "ps_write"
    /\ disk' = writeFile(disk, combinedTxtPathOf(workSection.id),
                         [text |-> Join(contents, Separator)])
    /\ pc' = IF mergedConfig.generatePDFs THEN "ps_pdf" ELSE "ps_zip"
    /\ BuildWaits
    /\ UNCHANGED <<i, settled, trackerVars, buildVars>>

\* generateSectionPdfs resolved with its one path: lines 498-508
PdfRendered ==
    /\ pc = "ps_pdf"
    /\ disk' = fsWriteFile(disk, pdfPathOf(workSection.id),
                           [pdf |-> Join(contents, Separator)])
    /\ pdfPath' = <<pdfPathOf(workSection.id)>>
    /\ pc' = "ps_zip"
    /\ BuildWaits
    /\ UNCHANGED <<i, settled, trackerVars, sectionWork, buildTotal, w, contents, results,
                   zipPaths, progressBar>>

\* createSectionZip resolved: lines 510-517 and 590-591, then the next section
\* or the master archive
SectionZipped ==
    /\ pc = "ps_zip"
    /\ InBuild
    /\ \E files \in Listings(readdir(disk, sectionDirOf(workSection.id))) :
          disk' = writeFile(disk, SectionZipPath(outputDir, workSection.id),
                     [entries |-> SectionZip(disk, workSection.id,
                                             sectionDirOf(workSection.id),
                                             FALSE, mergedConfig.generatePDFs, files)])
    /\ results' = Append(results,
          [sectionId |-> workSection.id,
           numChunks |-> sectionWork[w].numChunks,
           txtPath   |-> combinedTxtPathOf(workSection.id),
           pdfPath   |-> pdfPath,
           zipPath   |-> SectionZipPath(outputDir, workSection.id)])
    /\ zipPaths' = Append(zipPaths, SectionZipPath(outputDir, workSection.id))
    /\ NextSection(w, sectionWork)
    /\ BuildWaits
    /\ UNCHANGED <<i, settled, trackerVars, sectionWork, buildTotal, contents, pdfPath,
                   progressBar>>

\* the path a pending step of processSection writes to
PendingWrite ==
    IF pc = "ps_ensure" THEN sectionDirOf(workSection.id)
    ELSE IF pc = "ps_write" THEN combinedTxtPathOf(workSection.id)
    ELSE IF pc = "ps_pdf" THEN pdfPathOf(workSection.id)
    ELSE SectionZipPath(outputDir, workSection.id)

\* an await of processSection rejected (ensureDirectory, writeFile,
\* generateSectionPdfs or createSectionZip): the catch of lines 592-596
SectionStepFails ==
    /\ pc \in {"ps_ensure", "ps_write", "ps_pdf", "ps_zip"}
    /\ InBuild
    /\ disk' \in IF pc = "ps_ensure" THEN {disk} ELSE TornWrites(disk, PendingWrite)
    /\ Throw(FsError(pc))
    /\ BuildWaits
    /\ UNCHANGED <<i, trackerVars, buildVars>>

\* createMasterZip(zipPaths, masterZipPath) resolved: lines 606-609
MasterZipped ==
    /\ pc = "b_master"
    /\ Readable(disk, zipPaths)
    /\ disk' = writeFile(disk, masterZipPath,
                         [entries |-> MasterZip(disk, zipPaths, <<>>, <<>>)])
    /\ pc' = "b_size"
    /\ BuildWaits
    /\ UNCHANGED <<i, settled, trackerVars, buildVars>>

\* createMasterZip rejected: build has no handler around it
MasterZipFails ==
    /\ pc = "b_master"
    /\ disk' \in TornWrites(disk, masterZipPath)
    /\ Throw(FsError("createMasterZip"))
    /\ BuildWaits
    /\ UNCHANGED <<i, trackerVars, buildVars>>

\* getDirectorySize(outputDir) resolved: lines 610-624
BuildReturns ==
    /\ pc = "b_size"
    /\ pc' = "done"
    /\ settled' =
          [state |-> "fulfilled",
           value |-> [outputDir     |-> outputDir,
                      masterZipPath |-> masterZipPath,
                      sections      |-> results,
                      stats         |-> [totalSections |-> Len(results),
                                         totalChunks   |-> buildTotal,
                                         totalSize     |-> getDirectorySize(disk, outputDir)],
                      cost          |-> getSummary(tracker)]]
    /\ BuildWaits
    /\ UNCHANGED <<i, coordVars>>

\* getDirectorySize(outputDir) rejected
DirectorySizeFails ==
    /\ pc = "b_size"
    /\ Throw(FsError("getDirectorySize"))
    /\ BuildWaits
    /\ UNCHANGED <<i, coordVars>>

BuildInit ==
    /\ entry = "build"
    /\ options \in BuildCallOptions
    /\ GeneratorIdle
    /\ CoordinatorIdle

BuildNext ==
    \/ CallBuild
    \/ OutputDirEnsured
    \/ OutputDirFails
    \/ SectionDirEnsured
    \/ ProcessSectionLoop
    \/ GenerateChunkLoop
    \/ ClientFulfils
    \/ ClientRejects
    \/ SleepElapses
    \/ ProcessSectionResume
    \/ CombinedTextWritten
    \/ PdfRendered
    \/ SectionZipped
    \/ SectionStepFails
    \/ MasterZipped
    \/ MasterZipFails
    \/ BuildReturns
    \/ DirectorySizeFails

BuildSpec == BuildInit /\ [][BuildNext]_vars

\* the builds followed to their end: a key, no NEON_MODEL, the default chunk
\* counts, and a selection of no, one or two sections without unknown ids
FairBuildCallOptions ==
    { o \in BuildCallOptions :
         /\ o.apiKey # <<>>
         /\ o.NEON_MODEL = <<>>
         /\ o.chunkOverrides = <<>>
         /\ \A k \in 1..Len(o.selectedSections) : o.selectedSections[k] \in SectionIds }

BuildFairInit ==
    /\ entry = "build"
    /\ options \in FairBuildCallOptions
    /\ GeneratorIdle
    /\ CoordinatorIdle

\* The build with its scheduling: every await of the thread settles (the
\* client answers each request, the timer of each sleep fires, each call of
\* the file system returns) and the event loop then runs the continuation, so
\* a step that is possible is eventually taken.
BuildFairSpec == BuildFairInit /\ [][BuildNext]_vars /\ WF_vars(BuildNext)

-----------------------------------------------------------------------------
(* main: part_000:674-708 *)

\* what main leaves alone before and after the build
MainWaits ==
    UNCHANGED <<entry, options, sectionVars, chunkVars, chunkReturn, clientCalls,
                callOrder, responses, coordVars>>

\* A plausible slip: the process always exits with 0
ExitZero(code) ==
    /\ exitCode' = <<0>>
    /\ pc' = "exited"

\* process.exit(code)
Exit(code) ==
    /\ exitCode' = <<code>>
    /\ pc' = "exited"

\* main() is called: the banner, then the await of ensureOpenAIKey
CallMain ==
    /\ pc = "idle"
    /\ entry = "main"
    /\ pc' = "m_key"
    /\ UNCHANGED <<settled, exitCode>>
    /\ MainWaits

\* ensureOpenAIKey resolved with the key of the environment, of the store or
\* of the prompt; then checkPrerequisites up to its await of the Puppeteer check
KeyEnsured ==
    /\ pc = "m_key"
    /\ options.apiKey # <<>>
    /\ pc' = "m_prereq"
    /\ UNCHANGED <<settled, exitCode>>
    /\ MainWaits

\* no key anywhere and the prompt for one rejected: the catch of lines 698-707
KeyFails ==
    /\ pc = "m_key"
    /\ options.apiKey = <<>>
    /\ Exit(1)
    /\ UNCHANGED settled
    /\ MainWaits

\* checkPrerequisites resolved, whatever the Puppeteer check said: true with a
\* key and false without; then the await of runAllPrompts
PrerequisitesChecked ==
    /\ pc = "m_prereq"
    /\ \E puppeteerOk \in BOOLEAN :
          LET prereqOk == options.apiKey # <<>>
          IN  IF ~prereqOk
              THEN Exit(1)
              ELSE pc' = "m_prompts" /\ UNCHANGED exitCode
    /\ UNCHANGED settled
    /\ MainWaits

\* runAllPrompts resolved with the configuration, or the user declined the
\* confirmation (part_001:318-323); then build(config, apiKey) up to its
\* first await
PromptsAnswered ==
    /\ pc = "m_prompts"
    /\ \E proceed \in BOOLEAN :
          IF ~proceed
          THEN Exit(0)
          ELSE pc' = "b_ensure" /\ UNCHANGED exitCode
    /\ UNCHANGED settled
    /\ MainWaits

\* a prompt of runAllPrompts rejected: the catch of lines 698-707
PromptsFail ==
    /\ pc = "m_prompts"
    /\ Exit(1)
    /\ UNCHANGED settled
    /\ MainWaits

\* the await of build resumes with its results: displaySummary and
\* process.exit(0)
MainReturns ==
    /\ pc = "done"
    /\ entry = "main"
    /\ settled.state = "fulfilled"
    /\ Exit(0)
    /\ UNCHANGED settled
    /\ MainWaits

\* the await of build throws what build rejected with: the catch of lines
\* 698-707
MainCatches ==
    /\ pc = "done"
    /\ entry = "main"
    /\ settled.state = "rejected"
    /\ Exit(1)
    /\ UNCHANGED settled
    /\ MainWaits

MainInit ==
    /\ entry = "main"
    /\ options \in MainCallOptions
    /\ GeneratorIdle
    /\ CoordinatorIdle

MainNext ==
    \/ CallMain
    \/ KeyEnsured
    \/ KeyFails
    \/ PrerequisitesChecked
    \/ PromptsAnswered
    \/ PromptsFail
    \/ OutputDirEnsured
    \/ OutputDirFails
    \/ SectionDirEnsured
    \/ ProcessSectionLoop
    \/ GenerateChunkLoop
    \/ ClientFulfils
    \/ ClientRejects
    \/ SleepElapses
    \/ ProcessSectionResume
    \/ CombinedTextWritten
    \/ PdfRendered
    \/ SectionZipped
    \/ SectionStepFails
    \/ MasterZipped
    \/ MasterZipFails
    \/ BuildReturns
    \/ DirectorySizeFails
    \/ MainReturns
    \/ MainCatches

MainSpec == MainInit /\ [][MainNext]_vars

-----------------------------------------------------------------------------
(* What the properties below read off a state *)

\* the request log of the generateChunk call in progress, or of the last one
NumRequests == Len(attempts)

\* a request that was answered with a failure other than the authentication signal
NonAuthFailure(a) ==
    \/ a.outcome = "empty"
    \/ a.outcome = "error" /\ a.status # 401

\* a failure that is neither the authentication nor the rate-limit signal
OtherFailure(a) ==
    \/ a.outcome = "empty"
    \/ a.outcome = "error" /\ a.status \notin {401, 429}

\* the message of the failure that request a ended with
FailureMessage(a) ==
    IF a.outcome = "empty" THEN "Empty response from OpenAI API" ELSE a.message

\* the thread is inside the retry loop of generateChunk
InRetryLoop == pc \in {"gc_loop", "gc_await", "gc_sleep"}

\* the error the caller got is the exhaustion error of generateChunk
RejectedExhausted ==
    /\ settled.state = "rejected"
    /\ Len(settled.error.message) = 4
    /\ settled.error.message[1] = "Failed to generate content after "
    /\ settled.error.message[3] = " attempts: "

\* the text the client returned to request number n of the run
TextOfRequest(n) == "Content chunk " \o ToString(n)

\* the usage a completion reported, a missing report or field counting as 0
ReportedUsage(report) ==
    IF report = <<>> THEN [promptTokens |-> 0, completionTokens |-> 0, totalTokens |-> 0]
    ELSE [promptTokens     |-> report[1].prompt_tokens,
          completionTokens |-> report[1].completion_tokens,
          totalTokens      |-> report[1].total_tokens]

RECURSIVE SumReported(_, _)
\* the componentwise sum of the usage of the first n successful responses
SumReported(list, n) ==
    IF n = 0 THEN [promptTokens |-> 0, completionTokens |-> 0, totalTokens |-> 0]
    ELSE LET rest == SumReported(list, n - 1)
             u    == ReportedUsage(list[n].usage)
         IN  [promptTokens     |-> rest.promptTokens + u.promptTokens,
              completionTokens |-> rest.completionTokens + u.completionTokens,
              totalTokens      |-> rest.totalTokens + u.totalTokens]

-----------------------------------------------------------------------------
(* C1 *)

\* C1: when the requests 1..k-1 of a generateChunk call failed with
\* non-authentication errors and request k <= maxRetries returned a text, the
\* call is over with that text as its result, request j was attempt j, and the
\* client was invoked exactly k times: no request follows the successful one.
C1_SuccessEndsTheCall ==
    (NumRequests >= 1 /\ attempts[NumRequests].outcome = "text") =>
        LET k    == NumRequests
            text == TextOfRequest(clientCalls)
        IN  /\ k <= maxRetries
            /\ \A j \in 1..k : attempts[j].attempt = j
            /\ \A j \in 1..(k - 1) : NonAuthFailure(attempts[j])
            /\ ~InRetryLoop
            /\ responses[Len(responses)].content = text
            /\ entry = "generateChunk" =>
                  /\ settled.state = "fulfilled"
                  /\ settled.value.content = text
                  /\ clientCalls = k
            /\ entry = "generateSection" =>
                  IF pc = "gs_resume" THEN chunkReturn[1].content = text
                  ELSE chunks[Len(chunks)] = text

\* a direct call with the default maxRetries = 3 that succeeded on its third
\* request, after an empty response and a rate limit
C1_Witness ==
    /\ entry = "generateChunk"
    /\ options.maxRetries = <<>>
    /\ settled.state = "fulfilled"
    /\ NumRequests = 3
    /\ attempts[1].outcome = "empty"
    /\ attempts[2].status = 429
    /\ clientCalls = 3

-----------------------------------------------------------------------------
(* C2 *)

\* C2: a generateChunk call never issues more than maxRetries requests; when
\* all maxRetries >= 1 requests failed with non-authentication errors and the
\* call is over, the caller holds the exhaustion error, which names maxRetries
\* and carries the message of the last failure; and the exhaustion error is
\* raised only after exactly maxRetries requests.
C2_ExhaustionAfterMaxRetries ==
    /\ NumRequests <= maxRetries \/ NumRequests = 0
    /\ (/\ maxRetries >= 1
        /\ NumRequests = maxRetries
        /\ \A j \in 1..NumRequests : NonAuthFailure(attempts[j])
        /\ pc = "done") =>
            /\ RejectedExhausted
            /\ settled.error.message[2] = maxRetries
            /\ LET last == FailureMessage(attempts[NumRequests])
               IN  last = "" \/ settled.error.message[4] = last
            /\ entry = "generateChunk" => clientCalls = maxRetries
    /\ (maxRetries >= 1 /\ RejectedExhausted) =>
            /\ NumRequests = maxRetries
            /\ \A j \in 1..NumRequests : NonAuthFailure(attempts[j])

\* a direct call with maxRetries = 2 whose two requests failed, the last one
\* with a server error
C2_Witness ==
    /\ entry = "generateChunk"
    /\ options.maxRetries = <<2>>
    /\ pc = "done"
    /\ NumRequests = 2
    /\ attempts[1].outcome = "empty"
    /\ attempts[2].status = 500
    /\ RejectedExhausted
    /\ settled.error.message[4] = "Internal server error"

-----------------------------------------------------------------------------
(* C3 *)

\* C3: when request k of a generateChunk call is answered with status 401, the
\* call is over at once with a rejection: k is the last request, the loop
\* slept only after the k-1 earlier failures, never after request k, and a
\* direct call invoked the client exactly k times.
C3_AuthFailsAtOnce ==
    \A k \in 1..NumRequests :
        (attempts[k].outcome = "error" /\ attempts[k].status = 401) =>
            /\ k = NumRequests
            /\ pc = "done"
            /\ settled.state = "rejected"
            /\ ~RejectedExhausted
            /\ Len(sleeps) = k - 1
            /\ \A s \in 1..Len(sleeps) : sleeps[s].attempt < k
            /\ entry = "generateChunk" => clientCalls = k

\* the second of three allowed requests is answered with 401
C3_Witness ==
    /\ entry = "generateChunk"
    /\ maxRetries = 3
    /\ NumRequests = 2
    /\ attempts[1].status = 500
    /\ attempts[2].status = 401
    /\ settled.state = "rejected"

-----------------------------------------------------------------------------
(* C4 *)

\* C4: when request k of a generateChunk call is answered with status 429, the
\* call sleeps exactly retryDelay * k * 2 ms after it, and the rate-limited
\* request used up attempt k: it was attempt k, a following request is attempt
\* k + 1, and the call never issues more than maxRetries requests.
C4_RateLimitWait ==
    \A k \in 1..NumRequests :
        (attempts[k].outcome = "error" /\ attempts[k].status = 429) =>
            /\ attempts[k].attempt = k
            /\ k <= maxRetries
            /\ Len(sleeps) >= k
            /\ sleeps[k] = [attempt |-> k, ms |-> retryDelay * k * 2]
            /\ \A s \in 1..Len(sleeps) : s # k => sleeps[s].attempt # k
            /\ k < NumRequests => attempts[k + 1].attempt = k + 1
            /\ k = NumRequests =>
                  \/ pc = "gc_sleep" /\ attempt = k
                  \/ pc = "gc_loop" /\ attempt = k + 1
                  \/ pc = "done" /\ k = maxRetries

\* the first request was rate limited with the default retryDelay of 1000 ms:
\* a wait of 2000 ms, then the second request
C4_Witness ==
    /\ options.retryDelay = <<>>
    /\ NumRequests = 2
    /\ attempts[1].status = 429
    /\ sleeps[1].ms = 2000
    /\ attempts[2].attempt = 2

-----------------------------------------------------------------------------
(* C5 *)

\* C5: when request k of a generateChunk call ends with a failure that is
\* neither the authentication nor the rate-limit signal (an empty response
\* included): if k < maxRetries the call sleeps exactly retryDelay * k ms and
\* then issues attempt k + 1; if k = maxRetries it does not sleep after it and
\* raises the exhaustion error.
C5_LinearBackoff ==
    \A k \in 1..NumRequests :
        OtherFailure(attempts[k]) =>
            IF k < maxRetries
            THEN /\ Len(sleeps) >= k
                 /\ sleeps[k] = [attempt |-> k, ms |-> retryDelay * k]
                 /\ \A s \in 1..Len(sleeps) : s # k => sleeps[s].attempt # k
                 /\ k < NumRequests => attempts[k + 1].attempt = k + 1
                 /\ k = NumRequests =>
                       \/ pc = "gc_sleep" /\ attempt = k
                       \/ pc = "gc_loop" /\ attempt = k + 1
            ELSE /\ k = maxRetries
                 /\ k = NumRequests
                 /\ Len(sleeps) = k - 1
                 /\ \A s \in 1..Len(sleeps) : sleeps[s].attempt < k
                 /\ \/ pc = "gc_loop" /\ attempt = k + 1
                    \/ /\ pc = "done"
                       /\ RejectedExhausted
                       /\ settled.error.message[2] = maxRetries

\* default maxRetries and retryDelay: a server error on the second request was
\* followed by a wait of 2000 ms, an empty third response by no wait at all
C5_Witness ==
    /\ options.maxRetries = <<>>
    /\ options.retryDelay = <<>>
    /\ NumRequests = 3
    /\ attempts[2].status = 500
    /\ sleeps[2].ms = 2000
    /\ attempts[3].outcome = "empty"
    /\ Len(sleeps) = 2
    /\ RejectedExhausted

-----------------------------------------------------------------------------
(* C6 *)

\* C6: generateChunk never hands out an empty text: not as its result, not to
\* generateSection, not into chunks.  A request answered with an empty or
\* missing text is a failure whose error is the empty-response error, handled
\* like any failure that is neither 401 nor 429 (C5); with maxRetries = 1 and
\* an empty answer the call rejects, after exactly one request and no wait,
\* with the exhaustion error carrying the empty-response message.
C6_EmptyResponseIsFailure ==
    /\ (entry = "generateChunk" /\ settled.state = "fulfilled") =>
            settled.value.content # ""
    /\ chunkReturn # <<>> => chunkReturn[1].content # ""
    /\ \A k \in 1..Len(chunks) : chunks[k] # ""
    /\ \A k \in 1..Len(responses) : responses[k].content # ""
    /\ (NumRequests >= 1 /\ attempts[NumRequests].outcome = "empty") =>
            /\ lastError = <<[status |-> 0, message |-> "Empty response from OpenAI API"]>>
            /\ pc \in {"gc_sleep", "gc_loop", "done"}
            /\ pc = "done" => RejectedExhausted
    /\ (maxRetries = 1 /\ NumRequests = 1 /\ attempts[1].outcome = "empty") =>
            /\ sleeps = <<>>
            /\ pc \in {"gc_loop", "done"}
            /\ pc = "done" =>
                  /\ RejectedExhausted
                  /\ settled.error.message[2] = 1
                  /\ settled.error.message[4] = "Empty response from OpenAI API"
                  /\ entry = "generateChunk" => clientCalls = 1

\* the scenario of the test: maxRetries = 1, the only response is empty
C6_Witness ==
    /\ entry = "generateChunk"
    /\ options.maxRetries = <<1>>
    /\ pc = "done"
    /\ NumRequests = 1
    /\ attempts[1].outcome = "empty"
    /\ clientCalls = 1
    /\ RejectedExhausted

-----------------------------------------------------------------------------
(* C7 *)

\* C7: generateSection with a sectionId that is not in the catalog rejects
\* with the unknown-section-id error in its first step, whatever numChunks is:
\* no generateChunk call, no client request, no onProgress call.
C7_UnknownSectionRejects ==
    (/\ entry = "generateSection"
     /\ options.sectionId \notin SectionIds
     /\ pc # "idle") =>
        /\ pc = "done"
        /\ settled.state = "rejected"
        /\ settled.error.message = <<"Unknown section ID: ", options.sectionId>>
        /\ clientCalls = 0
        /\ callOrder = <<>>
        /\ attempts = <<>>
        /\ progressCalls = <<>>

\* an unknown id with the largest numChunks and a callback
C7_Witness ==
    /\ entry = "generateSection"
    /\ options.sectionId = "unknown_section_xyz"
    /\ options.numChunks = MaxChunks
    /\ options.onProgress
    /\ settled.state = "rejected"

-----------------------------------------------------------------------------
(* C8 *)

\* C8: generateSection calls generateChunk for chunkIndex 0, 1, 2, ... in
\* that order and one after the other (the call for chunk j starts only when
\* chunk j-1 has its text); a fulfilled generateSection with numChunks = n made
\* exactly the calls 0..n-1 and returns a chunks list of length n whose i-th
\* element is the text the client returned for chunkIndex i.
C8_ChunksInCallOrder ==
    /\ \A k \in 1..Len(callOrder) : callOrder[k] = k - 1
    /\ \A k \in 1..Len(responses) : responses[k].chunkIndex = k - 1
    /\ Len(responses) <= Len(callOrder)
    /\ Len(callOrder) <= Len(responses) + 1
    /\ InRetryLoop => Len(responses) = Len(callOrder) - 1
    /\ (entry = "generateSection" /\ settled.state = "fulfilled") =>
            LET n == options.numChunks IN
            /\ Len(callOrder) = n
            /\ Len(responses) = n
            /\ Len(settled.value.chunks) = n
            /\ \A k \in 1..n : settled.value.chunks[k] = responses[k].content

\* two chunks, the second one on a retry: the texts of requests 1 and 3
C8_Witness ==
    /\ entry = "generateSection"
    /\ settled.state = "fulfilled"
    /\ options.numChunks = 2
    /\ clientCalls = 3
    /\ settled.value.chunks = <<"Content chunk 1", "Content chunk 3">>

-----------------------------------------------------------------------------
(* C9 *)

\* C9: with an onProgress callback, generateSection calls it once per chunk
\* that got its text: the k-th call carries index k-1 and the content and
\* usage of the k-th successful response; the call for chunk i is made in the
\* step after chunk i succeeded, so while generateChunk works on chunk i
\* exactly the chunks 0..i-1 were reported; a fulfilled run with numChunks = n
\* made exactly n calls.  Without a callback nothing is reported.
C9_ProgressPerChunk ==
    /\ ~options.onProgress => progressCalls = <<>>
    /\ options.onProgress =>
            /\ Len(progressCalls) <= Len(responses)
            /\ \A k \in 1..Len(progressCalls) :
                  progressCalls[k] = [index   |-> k - 1,
                                      content |-> responses[k].content,
                                      usage   |-> ReportedUsage(responses[k].usage)]
            /\ pc = "gs_resume" => Len(progressCalls) = Len(responses) - 1
            /\ pc # "gs_resume" => Len(progressCalls) = Len(responses)
            /\ InRetryLoop => Len(progressCalls) = i
            /\ settled.state = "fulfilled" => Len(progressCalls) = options.numChunks

\* a fulfilled run of two chunks with a callback
C9_Witness ==
    /\ entry = "generateSection"
    /\ options.onProgress
    /\ options.numChunks = 2
    /\ settled.state = "fulfilled"
    /\ Len(progressCalls) = 2
    /\ progressCalls[2].index = 1
    /\ progressCalls[2].usage.totalTokens = 4

-----------------------------------------------------------------------------
(* C10 *)

\* C10: totalUsage is at every moment the componentwise sum of the usage of
\* the successful responses whose chunk was taken over, and the totalUsage a
\* fulfilled generateSection returns is the sum over all n of them: what a
\* failed attempt reported is not in it.
C10_TotalUsageIsSum ==
    /\ entry = "generateSection" => totalUsage = SumReported(responses, Len(chunks))
    /\ (entry = "generateSection" /\ settled.state = "fulfilled") =>
            /\ Len(responses) = options.numChunks
            /\ settled.value.totalUsage = SumReported(responses, options.numChunks)

\* two chunks reporting 3 and 4 tokens, the second one after an empty response
\* that reported usage too: 7 tokens in total
C10_Witness ==
    /\ entry = "generateSection"
    /\ settled.state = "fulfilled"
    /\ options.numChunks = 2
    /\ NumRequests = 2
    /\ attempts[1].outcome = "empty"
    /\ attempts[1].hadUsage
    /\ responses[1].usage # <<>>
    /\ responses[1].usage[1].total_tokens = 3
    /\ settled.value.totalUsage =
          [promptTokens |-> 5, completionTokens |-> 2, totalTokens |-> 7]

-----------------------------------------------------------------------------
(* C11 *)

\* the generateChunk call in progress, or the last one, ended with a throw: it
\* is not in its retry loop and it added no response
ChunkFailed == ~InRetryLoop /\ Len(callOrder) > Len(responses)

\* the error a failed generateChunk call throws: the authentication error when
\* its last request was answered 401, the exhaustion error otherwise
ChunkError ==
    IF attempts # <<>> /\ attempts[Len(attempts)].status = 401
    THEN InvalidKeyError ELSE ExhaustionError

\* C11: when the generateChunk call of chunk i fails inside generateSection
\* (authentication failure or retries exhausted), generateSection is over and
\* rejected with that very error, generateChunk was called for the chunks 0..i
\* and for no later one, onProgress was called exactly for the chunks 0..i-1 in
\* order, and no { chunks, totalUsage } value was returned.
C11_ChunkFailureAbortsSection ==
    (entry = "generateSection" /\ ChunkFailed) =>
        /\ pc = "done"
        /\ settled.state = "rejected"
        /\ settled.error = ChunkError
        /\ Len(callOrder) = i + 1
        /\ \A k \in 1..Len(callOrder) : callOrder[k] = k - 1
        /\ Len(chunks) = i
        /\ Len(progressCalls) = IF options.onProgress THEN i ELSE 0
        /\ \A k \in 1..Len(progressCalls) : progressCalls[k].index = k - 1

\* chunk 1 of a section ran out of retries after chunk 0 was reported to the
\* callback
C11_Witness ==
    /\ entry = "generateSection"
    /\ ChunkFailed
    /\ i = 1
    /\ options.onProgress
    /\ RejectedExhausted
    /\ Len(progressCalls) = 1

-----------------------------------------------------------------------------
(* C18 *)

RECURSIVE SumAdded(_, _)
\* the componentwise sum of the first n usage objects passed to addUsage, a
\* missing field counting as 0
SumAdded(list, n) ==
    IF n = 0 THEN [promptTokens |-> 0, completionTokens |-> 0, totalTokens |-> 0]
    ELSE LET rest == SumAdded(list, n - 1)
         IN  [promptTokens     |-> rest.promptTokens + OrZero(list[n], "promptTokens"),
              completionTokens |-> rest.completionTokens
                                      + OrZero(list[n], "completionTokens"),
              totalTokens      |-> rest.totalTokens + OrZero(list[n], "totalTokens")]

\* C18: after any sequence of addUsage calls u1..uk on a tracker,
\* getTotalUsage() is the componentwise sum of u1..uk (a missing field counts
\* as 0), and in every state getTotalCost() is calculateCost of that total
\* for the tracker's model, computed afresh.
C18_TrackerCostNeverDrifts ==
    entry = "createCostTracker" =>
        /\ getTotalUsage(tracker) = SumAdded(added, Len(added))
        /\ getTotalCost(tracker) = calculateCost(getTotalUsage(tracker), options.model)

\* three calls, one of them without promptTokens, on a tracker priced by the
\* prefix of its model name: 1001 prompt and 507 completion tokens at the
\* gpt-3.5-turbo rate
C18_Witness ==
    /\ entry = "createCostTracker"
    /\ Len(added) = 3
    /\ \E k \in 1..3 : "promptTokens" \notin DOMAIN added[k]
    /\ getModelPricing(options.model) = [input |-> 50, output |-> 150]
    /\ getTotalUsage(tracker).promptTokens = 1001
    /\ getTotalCost(tracker) = 1001 * 50 + 507 * 150

-----------------------------------------------------------------------------
(* C15 *)

\* the archive a fulfilled createSectionZip call wrote
WrittenSectionZip ==
    disk[SectionZipPath(options.outputDir, options.sectionId)].data.entries

\* the names of the files that lie directly in the section directory
FilesOfSectionDir ==
    { f \in readdir(disk, options.sectionDir) : isFile(disk, join(options.sectionDir, f)) }

\* the extension rule the claim states
SelectedByFlags(file) ==
    \/ ToLowerCase(extname(file)) = TxtExt /\ includeSourceFiles
    \/ ToLowerCase(extname(file)) = PdfExt /\ includePdfs

IsArchived(file) ==
    \E k \in 1..Len(WrittenSectionZip) :
       WrittenSectionZip[k].name = <<Dir(options.sectionId), file>>

\* C15: the archive createSectionZip wrote contains a file of sectionDir (not
\* of its sub-directories) if and only if the file is a .txt and
\* includeSourceFiles is true, or a .pdf and includePdfs is true; with both
\* flags false the archive has no entries.
C15_SectionZipFilter ==
    (entry = "createSectionZip" /\ settled.state = "fulfilled") =>
        /\ \A file \in FilesOfSectionDir : IsArchived(file) <=> SelectedByFlags(file)
        /\ (~includeSourceFiles /\ ~includePdfs) => WrittenSectionZip = <<>>

\* the same statement for the calls that name at least one kind of file
C15_FilterWhenAKindIsNamed ==
    (entry = "createSectionZip" /\ settled.state = "fulfilled"
        /\ (includeSourceFiles \/ includePdfs)) =>
        /\ \A file \in FilesOfSectionDir : IsArchived(file) <=> SelectedByFlags(file)
        /\ Len(WrittenSectionZip) = Cardinality({ f \in FilesOfSectionDir : IsArchived(f) })

\* both flags false over a directory that holds a text: the text is archived
C15_FailingInput ==
    /\ entry = "createSectionZip"
    /\ settled.state = "fulfilled"
    /\ options.includeSourceFiles = <<FALSE>>
    /\ options.includePdfs = <<FALSE>>
    /\ IsArchived(File("chunk_01", TxtExt))

-----------------------------------------------------------------------------
(* C16 *)

\* the archive a fulfilled createMasterZip call wrote
WrittenMasterZip == disk[options.outputPath].data.entries

\* the README and LICENSE entries the options ask for and the disk can give
ExtraEntries ==
    (IF options.readmePath # <<>> /\ pathExists(disk, options.readmePath[1])
     THEN {[name |-> <<ReadmeEntry>>, data |-> disk[options.readmePath[1]].data]}
     ELSE {})
    \cup
    (IF options.licensePath # <<>> /\ pathExists(disk, options.licensePath[1])
     THEN {[name |-> <<LicenseEntry>>, data |-> disk[options.licensePath[1]].data]}
     ELSE {})

\* one entry per path, named by its base name and holding its bytes, in input
\* order, followed by exactly the README and LICENSE entries asked for
OneEntryPerPath ==
    LET paths == options.sectionZipPaths
        n     == Len(paths)
    IN  /\ Len(WrittenMasterZip) = n + Cardinality(ExtraEntries)
        /\ \A k \in 1..n :
              WrittenMasterZip[k] = [name |-> <<basename(paths[k])>>,
                                     data |-> disk[paths[k]].data]
        /\ { WrittenMasterZip[k] : k \in (n + 1)..Len(WrittenMasterZip) } = ExtraEntries

\* C16 as stated: createMasterZip over the paths p1..pn writes an archive whose
\* entries are exactly one entry per path, named by its base filename and
\* holding its bytes, in input order, plus README.md iff readmePath is given
\* and exists and LICENSE.txt iff licensePath is given and exists.
C16_OneEntryPerPath ==
    (entry = "createMasterZip" /\ settled.state = "fulfilled") => OneEntryPerPath

\* the base filenames of the paths differ from each other and from the names
\* of the README and LICENSE entries
DistinctBaseNames ==
    LET paths == options.sectionZipPaths
    IN  /\ \A a, b \in 1..Len(paths) : a # b => basename(paths[a]) # basename(paths[b])
        /\ \A a \in 1..Len(paths) : basename(paths[a]) \notin {ReadmeEntry, LicenseEntry}

\* the entry names the call produces: base names, README.md, LICENSE.txt
EntryNames ==
    { <<basename(options.sectionZipPaths[k])>> : k \in 1..Len(options.sectionZipPaths) }
       \cup { e.name : e \in ExtraEntries }

\* C16, amended: for paths whose base filenames are pairwise distinct and are
\* neither README.md nor LICENSE.txt the archive is as stated; in general the
\* archive has exactly one entry per distinct entry name, and a base filename
\* that occurs more than once, and is no README or LICENSE entry, holds the
\* bytes of the last path that has it.
C16_OneEntryPerBaseName ==
    (entry = "createMasterZip" /\ settled.state = "fulfilled") =>
        LET paths == options.sectionZipPaths
        IN  /\ DistinctBaseNames => OneEntryPerPath
            /\ Len(WrittenMasterZip) = Cardinality(EntryNames)
            /\ { WrittenMasterZip[k].name : k \in 1..Len(WrittenMasterZip) } = EntryNames
            /\ \A k \in 1..Len(paths) :
                  (/\ \A later \in (k + 1)..Len(paths) :
                         basename(paths[later]) # basename(paths[k])
                   /\ <<basename(paths[k])>> \notin { e.name : e \in ExtraEntries })
                  => \E e \in 1..Len(WrittenMasterZip) :
                        WrittenMasterZip[e] = [name |-> <<basename(paths[k])>>,
                                               data |-> disk[paths[k]].data]

\* two section archives and an existing README: three entries
C16_Witness ==
    /\ entry = "createMasterZip"
    /\ settled.state = "fulfilled"
    /\ options.sectionZipPaths = <<Section1Zip, Section2Zip>>
    /\ options.readmePath = <<ReadmePath>>
    /\ Len(WrittenMasterZip) = 3

\* two archives named section1.zip in different directories: one entry, with
\* the bytes of the second
C16_SameBaseName ==
    /\ entry = "createMasterZip"
    /\ settled.state = "fulfilled"
    /\ options.sectionZipPaths = <<Section1Zip, OtherSection1Zip>>
    /\ Len(WrittenMasterZip) = 1 + Cardinality(ExtraEntries)
    /\ WrittenMasterZip[1].data = disk[OtherSection1Zip].data

-----------------------------------------------------------------------------
(* C12 *)

\* a step of processSection on section w failed: the build was rejected while
\* the result of section w was still missing
SectionFailed ==
    /\ settled.state = "rejected"
    /\ w >= 1
    /\ Len(results) = w - 1

\* the errors the file-system steps of processSection raise
SectionStepErrors == { FsError(step) : step \in {"ps_ensure", "ps_write", "ps_pdf", "ps_zip"} }

\* the number of chunks of the first n sections to process
ChunksThrough(n) == SumOfChunks(SubSeq(sectionWork, 1, n))

\* nothing of the section exists on disk
Untouched(id) ==
    /\ \A p \in DOMAIN disk :
          ~(Len(p) >= Len(sectionDirOf(id))
               /\ SubSeq(p, 1, Len(sectionDirOf(id))) = sectionDirOf(id))
    /\ SectionZipPath(outputDir, id) \notin DOMAIN disk

\* the files and the archive a finished section is recorded with
PathsOfResult(result) ==
    {result.txtPath, result.zipPath}
       \cup (IF result.pdfPath = <<>> THEN {} ELSE {result.pdfPath[1]})

\* once section w has failed the run is over and rejected with the error of
\* the failing step; no later section was touched, no request was made for a
\* later section and there is no master archive
AbortedAtFailure ==
    (entry = "build" /\ ((ChunkFailed /\ w >= 1) \/ SectionFailed)) =>
        /\ pc = "done"
        /\ settled.state = "rejected"
        /\ IF ChunkFailed THEN settled.error = ChunkError
                          ELSE settled.error \in SectionStepErrors
        /\ Len(results) = w - 1
        /\ Len(zipPaths) = w - 1
        /\ \A j \in (w + 1)..Len(sectionWork) : Untouched(sectionWork[j].section.id)
        /\ Len(callOrder) <= ChunksThrough(w)
        /\ clientCalls <= ChunksThrough(w) * maxRetries
        /\ masterZipPath \notin DOMAIN disk

\* no step changes a file or an archive of a section that was completed
KeepsCompletedSections ==
    entry = "build" =>
        \A j \in 1..Len(results) : \A p \in PathsOfResult(results[j]) :
            /\ p \in DOMAIN disk
            /\ p \in DOMAIN disk'
            /\ disk'[p] = disk[p]

\* C12: when processing section i fails at any step (chunk generation, text
\* write, PDF render, section archive) the build is over at once: it is
\* rejected with the error of the failing step, no later section is processed,
\* no further completion request is made, the master archive is not built, and
\* the files and archives of the sections completed before stay on disk as
\* they were written.
C12_SectionFailureAbortsRun ==
    /\ []AbortedAtFailure
    /\ [][KeepsCompletedSections]_vars

\* the PDF render of the second section failed after the first section was
\* archived; the first section's archive is on disk, the master archive is not
C12_Witness ==
    /\ entry = "build"
    /\ SectionFailed
    /\ w = 2
    /\ settled.error = FsError("ps_pdf")
    /\ results[1].zipPath \in DOMAIN disk
    /\ masterZipPath \notin DOMAIN disk

-----------------------------------------------------------------------------
(* C13 *)

\* createMasterZip was called: the build waits for it, or is past it
MasterRequested ==
    /\ entry = "build"
    /\ \/ pc \in {"b_master", "b_size"}
       \/ settled.state = "fulfilled"
       \/ settled.state = "rejected" /\ settled.error = FsError("createMasterZip")
       \/ settled.state = "rejected" /\ settled.error = FsError("getDirectorySize")

\* the ids of the list were processed, one result and one archive path each,
\* in the order of the list, and every archive is on disk
ProcessedInOrder(ids) ==
    /\ Len(results) = Len(ids)
    /\ Len(zipPaths) = Len(ids)
    /\ \A k \in 1..Len(ids) :
          /\ results[k].sectionId = ids[k]
          /\ zipPaths[k] = SectionZipPath(outputDir, ids[k])
          /\ isFile(disk, zipPaths[k])

\* C13 as stated: createMasterZip is called only after every selected section
\* was processed successfully, and it is given the archive paths of the
\* selected sections, one per section, in the order of selectedSections.
C13_MasterAfterAllSelected ==
    MasterRequested => ProcessedInOrder(mergedConfig.selectedSections)

RECURSIVE IdsOf(_)
IdsOf(workList) ==
    IF workList = <<>> THEN <<>> ELSE <<Head(workList).section.id>> \o IdsOf(Tail(workList))

\* what the code does guarantee: the same for the sections of sectionWork,
\* which are the selected ids the catalog knows
C13_MasterAfterAllWork ==
    MasterRequested => ProcessedInOrder(IdsOf(sectionWork))

\* a selection with an unknown id in front: the master archive was requested
\* with the archive of one section
C13_FailingInput ==
    /\ MasterRequested
    /\ mergedConfig.selectedSections = <<"unknown_section_xyz", "branding">>
    /\ Len(zipPaths) = 1

-----------------------------------------------------------------------------
(* C17 *)

HasUnknownId ==
    \E k \in 1..Len(mergedConfig.selectedSections) :
       getSectionById(mergedConfig.selectedSections[k]) = <<>>

\* C17 as stated: a build whose selectedSections holds an id the catalog does
\* not know fails before any section is worked on: it processes nothing, issues
\* no request and never returns a result.
C17_UnknownIdFailsRun ==
    (entry = "build" /\ HasUnknownId) =>
        /\ settled.state # "fulfilled"
        /\ pc \in {"idle", "b_ensure", "done"}
        /\ clientCalls = 0
        /\ results = <<>>

\* a build with an unknown id that returned a result for the other section
C17_FailingInput ==
    /\ entry = "build"
    /\ HasUnknownId
    /\ settled.state = "fulfilled"
    /\ settled.value.stats.totalSections = 1

-----------------------------------------------------------------------------
(* C14 *)

\* the path lies in the directory of the section being processed
InSectionDir(p) ==
    /\ Len(p) > Len(sectionDirOf(workSection.id))
    /\ SubSeq(p, 1, Len(sectionDirOf(workSection.id))) = sectionDirOf(workSection.id)

\* the text of chunk n (counted from 0) of the section being processed is in
\* a text file of its directory, alone or joined with its neighbours
Persisted(n) ==
    \E p \in DOMAIN disk :
       /\ InSectionDir(p)
       /\ isFile(disk, p)
       /\ "text" \in DOMAIN disk[p].data
       /\ \/ disk[p].data.text = contents[n + 1]
          \/ \E m \in (n + 1)..Len(contents) :
                disk[p].data.text = Join(SubSeq(contents, 1, m), Separator)

\* a request for chunk i of the section being processed is outstanding
RequestOutstanding == entry = "build" /\ pc = "gc_await"

TextsOfSection(j) ==
    [n \in 1..sectionWork[j].numChunks |-> responses[ChunksThrough(j - 1) + n].content]

-----------------------------------------------------------------------------
(* C19 *)

\* the build returned its result
BuildDone == entry = "build" /\ settled.state = "fulfilled"

\* C19: when a build returns, the usage of its cost summary is the
\* componentwise sum of the usage of every successful chunk response of the
\* run, addUsage having been called once per successful chunk with that
\* chunk's usage and never for a failed attempt, and the cost of the summary
\* is calculateCost of that usage for the model of the merged configuration.
C19_SummaryIsSumOfChunkUsage ==
    BuildDone =>
        LET summary == settled.value.cost
        IN  /\ Len(added) = Len(responses)
            /\ \A k \in 1..Len(added) : added[k] = ReportedUsage(responses[k].usage)
            /\ summary.usage = SumReported(responses, Len(responses))
            /\ summary.model = mergedConfig.model
            /\ summary.cost = calculateCost(summary.usage, mergedConfig.model)

\* a build priced by NEON_MODEL whose last chunk needed a second request
\* after an empty response that reported usage, and whose run used tokens
C19_Witness ==
    /\ BuildDone
    /\ options.NEON_MODEL # <<>>
    /\ Len(attempts) = 2
    /\ attempts[1].outcome = "empty"
    /\ attempts[1].hadUsage
    /\ settled.value.cost.usage.promptTokens > 0
    /\ settled.value.cost.cost > 0

-----------------------------------------------------------------------------
(* C20 *)

\* the chunk count the claim gives a section: its chunkOverrides entry when
\* there is one, else its defaultChunks
StatedChunkCount(sec) ==
    IF mergedConfig.chunkOverrides # <<>>
          /\ mergedConfig.chunkOverrides[1].sectionId = sec.id
    THEN mergedConfig.chunkOverrides[1].numChunks
    ELSE sec.defaultChunks

\* the statistics of a returned build agree with what was done
StatsAgree ==
    BuildDone =>
        /\ settled.value.stats.totalChunks = SumOfChunks(sectionWork)
        /\ settled.value.stats.totalChunks = Len(responses)
        /\ settled.value.stats.totalChunks = progressBar[1].value
        /\ settled.value.stats.totalChunks = progressBar[1].total
        /\ settled.value.stats.totalSections = Len(results)
        /\ \A j \in 1..Len(results) : results[j].numChunks = sectionWork[j].numChunks

\* C20 as stated: every section to process has its chunkOverrides entry as
\* its chunk count when there is one and its defaultChunks otherwise, and when
\* the build returns, stats.totalChunks is the sum of these counts, the number
\* of chunks generated and the number of progress increments, and
\* stats.totalSections is the number of section results.
C20_OverrideWhenPresent ==
    /\ entry = "build" =>
          \A j \in 1..Len(sectionWork) :
             sectionWork[j].numChunks = StatedChunkCount(sectionWork[j].section)
    /\ StatsAgree

\* an override of 0 for the one selected section: two chunks were generated
C20_FailingInput ==
    /\ BuildDone
    /\ mergedConfig.selectedSections = <<"branding">>
    /\ mergedConfig.chunkOverrides = <<[sectionId |-> "branding", numChunks |-> 0]>>
    /\ settled.value.stats.totalChunks = 2
    /\ Len(responses) = 2

-----------------------------------------------------------------------------
(* C21 *)

\* the usage object has no negative token count
NonNegativeUsage(usage) == \A field \in DOMAIN usage : usage[field] >= 0

\* C21: every addUsage call with non-negative token counts leaves
\* getTotalCost() greater than or equal to what it was before the call.
C21_CostNeverDecreases ==
    [][(/\ entry = "createCostTracker"
        /\ Len(added') = Len(added) + 1
        /\ NonNegativeUsage(added'[Len(added')]))
          => getTotalCost(tracker') >= getTotalCost(tracker)]_vars

\* a second call, smaller than the first, has raised the cost above the cost
\* of the first call alone
C21_Witness ==
    /\ entry = "createCostTracker"
    /\ Len(added) = 2
    /\ NonNegativeUsage(added[2])
    /\ calculateCost(SumAdded(added, 2), options.model)
          < calculateCost(SumAdded(added, 1), options.model) * 2
    /\ getTotalCost(tracker) > calculateCost(SumAdded(added, 1), options.model)

-----------------------------------------------------------------------------
(* C22 *)

\* the table keys that are a prefix of the name, letter case apart
PrefixKeys(model) ==
    { n \in 1..Len(MODEL_PRICING) : StartsWith(ToLowerCase(model), MODEL_PRICING[n].key) }

\* the three tiers as stated: the exact key, else the longest key that is a
\* prefix of the name, else the default rate
ThreeTierPricing(model) ==
    IF \E n \in 1..Len(MODEL_PRICING) : MODEL_PRICING[n].key = model
    THEN MODEL_PRICING[CHOOSE n \in 1..Len(MODEL_PRICING) :
                          MODEL_PRICING[n].key = model].pricing
    ELSE IF PrefixKeys(model) # {}
    THEN MODEL_PRICING[CHOOSE n \in PrefixKeys(model) :
                          \A m \in PrefixKeys(model) :
                             Len(MODEL_PRICING[m].key) <= Len(MODEL_PRICING[n].key)].pricing
    ELSE DEFAULT_PRICING

\* C22: the rate a tracker prices its model by is the exact table entry when
\* the model is a key, otherwise the entry of the longest key that is a
\* case-insensitive prefix of the model, otherwise the default rate.
C22_LongestPrefixPricing ==
    entry = "createCostTracker" =>
        /\ getSummary(tracker).pricing = ThreeTierPricing(options.model)
        /\ getTotalCost(tracker)
              = getTotalUsage(tracker).promptTokens * ThreeTierPricing(options.model).input
                + getTotalUsage(tracker).completionTokens
                     * ThreeTierPricing(options.model).output

\* usage added to a tracker for gpt-4o-2024-08-06: the longest key that is a
\* prefix of the name is gpt-4o, and the tracker prices by gpt-4, the first
\* key of the table that is one
C22_FailingInput ==
    /\ entry = "createCostTracker"
    /\ options.model = <<"g","p","t","-","4","o","-","2","0","2","4","-","0","8","-","0","6">>
    /\ Len(added) > 0
    /\ ThreeTierPricing(options.model) = [input |-> 500, output |-> 1500]
    /\ getSummary(tracker).pricing = [input |-> 3000, output |-> 6000]
    /\ getTotalCost(tracker) = calculateCost(getTotalUsage(tracker), <<"g","p","t","-","4">>)

-----------------------------------------------------------------------------
(* C23 *)

\* the last completion request of the run was rejected with status 401
CredentialRejected ==
    /\ attempts # <<>>
    /\ attempts[Len(attempts)].outcome = "error"
    /\ attempts[Len(attempts)].status = 401
    /\ lastError # <<>>
    /\ IsAuthError(lastError[1])

\* C23: when the upstream call rejected the credential (status 401), the
\* error the run rejects with is the upstream error itself, with its status
\* and its message.
C23_AuthErrorSurfacedVerbatim ==
    (entry = "build" /\ settled.state = "rejected" /\ CredentialRejected)
        => settled.error = lastError[1]

\* a build whose first request is answered with 401 "Incorrect API key
\* provided": the run rejects with a new error that says "Invalid OpenAI API
\* key" and has no status
C23_FailingInput ==
    /\ entry = "build"
    /\ settled.state = "rejected"
    /\ CredentialRejected
    /\ clientCalls = 1
    /\ lastError[1] = [status |-> 401, message |-> "Incorrect API key provided"]
    /\ settled.error = InvalidKeyError
    /\ "status" \notin DOMAIN settled.error

-----------------------------------------------------------------------------
(* C24 *)

\* the model as stated: NEON_MODEL when it is set, else the model of the
\* user's configuration, else the built-in default
StatedModel ==
    IF options.NEON_MODEL # <<>> /\ options.NEON_MODEL[1] # <<>>
    THEN options.NEON_MODEL[1]
    ELSE IF options.model # <<>> THEN options.model[1]
    ELSE DEFAULT_CONFIG.model

\* C24: every completion request of a build names, and its cost tracker is
\* priced by, NEON_MODEL when that variable is set and otherwise the model of
\* the user's configuration.
C24_EnvThenUserModel ==
    entry = "build" =>
        /\ \A n \in 1..Len(attempts) : attempts[n].model = StatedModel
        /\ DOMAIN tracker # {} => tracker.model = StatedModel

\* NEON_MODEL is not set and the user chose gpt-4o-mini: a request was made
\* for gpt-4, the built-in default, and the tracker is priced by it
C24_FailingInput ==
    /\ entry = "build"
    /\ options.NEON_MODEL = <<>>
    /\ options.model = <<UserModel>>
    /\ attempts # <<>>
    /\ attempts[1].model = DEFAULT_CONFIG.model
    /\ attempts[1].model # UserModel
    /\ DOMAIN tracker # {}
    /\ tracker.model = DEFAULT_CONFIG.model

-----------------------------------------------------------------------------
(* C25 *)

\* the run fully succeeded: every selected section has its result and the
\* master archive is on the disk
RunSucceeded ==
    /\ settled.state = "fulfilled"
    /\ Len(results) = Len(options.selectedSections)
    /\ isFile(disk, masterZipPath)

\* a fatal error: no key, or the build rejected
FatalError ==
    \/ options.apiKey = <<>>
    \/ settled.state = "rejected"

-----------------------------------------------------------------------------
(* C26 *)

\* the requests of the log that were issued and not answered yet
PendingRequests == { n \in 1..Len(attempts) : attempts[n].outcome = "pending" }

\* the selected ids the catalog knows, in the order of the selection
KnownSelected == SelectSeq(mergedConfig.selectedSections, LAMBDA id : id \in SectionIds)

\* at most one request is outstanding, and only while the thread awaits it;
\* it is a request for chunk i of section w, issued after the chunks before i
\* returned their texts and after the sections before w, taken in the order
\* of the selection, had their archives written
OneRequestInOrder ==
    entry = "build" =>
        /\ Cardinality(PendingRequests) <= 1
        /\ PendingRequests # {} <=> pc = "gc_await"
        /\ InRetryLoop =>
              /\ IdsOf(sectionWork) = KnownSelected
              /\ \A n \in 1..Len(attempts) : attempts[n].part = i + 1
              /\ Len(contents) = i
              /\ Len(responses) = ChunksThrough(w - 1) + i
              /\ Len(results) = w - 1
              /\ \A j \in 1..(w - 1) :
                    /\ results[j].sectionId = sectionWork[j].section.id
                    /\ isFile(disk, SectionZipPath(outputDir, sectionWork[j].section.id))
                    /\ "entries" \in DOMAIN
                          disk[SectionZipPath(outputDir, sectionWork[j].section.id)].data

\* a request is issued by the thread at its loop test: no wait is pending and
\* no other request is outstanding
IssuedWhenFree ==
    clientCalls' # clientCalls =>
        /\ pc = "gc_loop"
        /\ PendingRequests = {}
        /\ clientCalls' = clientCalls + 1

\* C26: at every point of a build at most one completion request is
\* outstanding and none is issued while a backoff wait is pending; the
\* sections are processed one at a time in the order of selectedSections, the
\* first request of chunk i+1 is issued only after chunk i resolved, and the
\* first request of section j+1 only after the archive of section j was
\* written.
C26_OneRequestAtATime == []OneRequestInOrder /\ [][IssuedWhenFree]_vars

\* the request for the second chunk of the second section is outstanding: the
\* first section has its result and its archive, the first chunk its text
C26_Witness ==
    /\ entry = "build"
    /\ pc = "gc_await"
    /\ PendingRequests = {1}
    /\ w = 2
    /\ i = 1
    /\ Len(contents) = 1
    /\ Len(results) = 1
    /\ isFile(disk, SectionZipPath(outputDir, sectionWork[1].section.id))

-----------------------------------------------------------------------------
(* C27 *)

\* the path of the combined text file of section j of sectionWork
TxtOf(j) == combinedTxtPathOf(sectionWork[j].section.id)

\* the combined text file of section j is on disk, fully formed: the texts of
\* its chunks in index order, joined by the separator
FullyWritten(j) ==
    /\ Len(responses) >= ChunksThrough(j)
    /\ isFile(disk, TxtOf(j))
    /\ disk[TxtOf(j)].data = [text |-> Join(TextsOfSection(j), Separator)]

\* processSection on section w has not finished its writeFile call
BeforeWrite ==
    pc \in {"ps_ensure", "ps_loop", "gc_loop", "gc_await", "gc_sleep", "ps_resume", "ps_write"}

\* the file is absent until the chunks of its section are all there, complete
\* from the PDF render on, and absent for ever when a chunk failed
CombinedTextInPlace ==
    entry = "build" =>
        \A j \in 1..Len(sectionWork) :
           /\ j > w => TxtOf(j) \notin DOMAIN disk
           /\ (j = w /\ BeforeWrite) => TxtOf(j) \notin DOMAIN disk
           /\ (j = w /\ ChunkFailed) => TxtOf(j) \notin DOMAIN disk
           /\ (j = w /\ pc \in {"ps_pdf", "ps_zip"}) => FullyWritten(j)
           /\ j <= Len(results) => FullyWritten(j)
           /\ (isFile(disk, TxtOf(j)) /\ "text" \in DOMAIN disk[TxtOf(j)].data)
                 => FullyWritten(j)

\* a step that puts something at the path of a combined text file is the
\* writeFile step of that section, the path being free; what is there stays
CombinedTextWrittenOnce ==
    entry = "build" =>
        \A j \in 1..Len(sectionWork') :
           LET path == combinedTxtPathOf(sectionWork'[j].section.id)
           IN  /\ (path \in DOMAIN disk' /\ path \notin DOMAIN disk)
                     => (pc = "ps_write" /\ w = j)
               /\ path \in DOMAIN disk
                     => (path \in DOMAIN disk' /\ disk'[path] = disk[path])

\* C27: the combined text file of a section is written exactly once, after
\* all chunks of the section were generated and before the PDF render and the
\* section archive step start; it holds the chunk texts in index order joined
\* by the separator; a section with a failed chunk never has the file.
C27_CombinedTextOnceAndWhole == []CombinedTextInPlace /\ [][CombinedTextWrittenOnce]_vars

\* the PDF render of a section of two chunks is about to start: the file holds
\* the two texts with the separator between them
C27_Witness ==
    /\ entry = "build"
    /\ pc = "ps_pdf"
    /\ sectionWork[w].numChunks = 2
    /\ responses[1].content # responses[2].content
    /\ disk[TxtOf(w)].data.text
          = responses[1].content \o "\n\n---\n\n" \o responses[2].content

-----------------------------------------------------------------------------
(* C28 *)

\* request k of the call was the final attempt and it failed without the
\* authentication signal
FinalAttemptFailed(k) ==
    /\ attempts[k].attempt = maxRetries
    /\ NonAuthFailure(attempts[k])

\* C28: when the final attempt (attempt = maxRetries) of generateChunk fails
\* with the rate-limit signal, the call still waits retryDelay * maxRetries * 2
\* ms, with no request after it, and raises the exhaustion error only when
\* that wait is over; when the final attempt fails otherwise, the exhaustion
\* error is raised with no wait after the attempt.
C28_FinalRateLimitStillWaits ==
    \A k \in 1..NumRequests :
        FinalAttemptFailed(k) =>
            /\ k = NumRequests
            /\ IF attempts[k].status = 429
               THEN /\ Len(sleeps) = k
                    /\ sleeps[k] = [attempt |-> maxRetries,
                                    ms |-> retryDelay * maxRetries * 2]
                    /\ \/ pc = "gc_sleep" /\ attempt = maxRetries
                                          /\ settled.state = "pending"
                       \/ pc = "gc_loop" /\ attempt = maxRetries + 1
                                         /\ settled.state = "pending"
                       \/ pc = "done" /\ RejectedExhausted
               ELSE /\ Len(sleeps) = k - 1
                    /\ \A n \in 1..Len(sleeps) : sleeps[n].attempt < maxRetries
                    /\ \/ pc = "gc_loop" /\ attempt = maxRetries + 1
                                         /\ settled.state = "pending"
                       \/ pc = "done" /\ RejectedExhausted

\* maxRetries = 2 and the default delay: the second request was answered 429,
\* the call waited 4000 ms and then raised the exhaustion error
C28_Witness ==
    /\ options.maxRetries = <<2>>
    /\ options.retryDelay = <<>>
    /\ NumRequests = 2
    /\ attempts[2].status = 429
    /\ Len(sleeps) = 2
    /\ sleeps[2].ms = 4000
    /\ RejectedExhausted
    /\ settled.error.message[4] = "Rate limit reached"

-----------------------------------------------------------------------------
(* C29 *)

\* the error generateChunk throws when its loop never ran
ZeroAttemptsError ==
    [message |-> <<"Failed to generate content after ", 0, " attempts: ", "Unknown error">>]

\* C29: in a build configured with maxRetries = 0 generateChunk gets 0, issues
\* no completion request and rejects with the exhaustion error that names 0
\* attempts and "Unknown error"; the run rejects with that error on the first
\* chunk of its first section, without any request and any wait.
C29_ZeroRetriesFailsWithoutRequest ==
    (entry = "build" /\ options.maxRetries = <<0>>) =>
        /\ clientCalls = 0
        /\ attempts = <<>>
        /\ sleeps = <<>>
        /\ pc \notin {"gc_await", "gc_sleep", "ps_resume", "ps_write", "ps_pdf", "ps_zip"}
        /\ callOrder \in {<<>>, <<0>>}
        /\ (callOrder = <<0>> /\ pc # "gc_loop") =>
              /\ pc = "done"
              /\ w = 1
              /\ settled = [state |-> "rejected", error |-> ZeroAttemptsError]
        /\ settled.state = "fulfilled" => sectionWork = <<>>

\* a build of one section with maxRetries = 0 has failed on its first chunk,
\* the section's directory made and nothing requested
C29_Witness ==
    /\ entry = "build"
    /\ options.maxRetries = <<0>>
    /\ options.selectedSections = <<"branding">>
    /\ callOrder = <<0>>
    /\ clientCalls = 0
    /\ isDirectory(disk, sectionDirOf("branding"))
    /\ settled = [state |-> "rejected", error |-> ZeroAttemptsError]

-----------------------------------------------------------------------------
(* C30 *)

\* the state of the run as a number: INIT is 0, PER_SECTION(k) is k + 1,
\* MASTER_ARCHIVE is n + 1 and DONE is n + 2 for a run of n sections; FAILED
\* is -1
Rank ==
    IF pc \in {"idle", "b_ensure"} THEN 0
    ELSE IF pc \in {"b_master", "b_size"} THEN Len(sectionWork) + 1
    ELSE IF pc = "done"
    THEN (IF settled.state = "fulfilled" THEN Len(sectionWork) + 2 ELSE -1)
    ELSE w

\* the run stays in its state, moves to the next one of the order or fails;
\* DONE and FAILED are left no more
InStateOrder ==
    entry = "build" =>
        IF pc = "done" THEN pc' = "done" /\ settled' = settled
        ELSE Rank' \in {Rank, Rank + 1, -1}

\* the requests made so far are at most maxRetries per chunk of the run
RequestsBounded ==
    entry = "build" => clientCalls <= maxRetries * buildTotal

\* the run has reached DONE or FAILED
Finished == entry = "build" /\ pc = "done" /\ settled.state \in {"fulfilled", "rejected"}

\* C30: a build in which every request, wait and file-system call returns
\* eventually reaches DONE or FAILED; on the way it passes through INIT,
\* PER_SECTION(0), ..., PER_SECTION(n-1), MASTER_ARCHIVE and DONE in this
\* order only; and it makes at most maxRetries times the total chunk count
\* completion requests.
C30_BuildTerminatesInOrder ==
    /\ <>Finished
    /\ [][InStateOrder]_vars
    /\ []RequestsBounded

\* a run of two sections is DONE after as many requests as the bound allows
C30_Witness ==
    /\ entry = "build"
    /\ pc = "done"
    /\ settled.state = "fulfilled"
    /\ Len(sectionWork) = 2
    /\ Rank = 4
    /\ maxRetries = 1
    /\ clientCalls = maxRetries * buildTotal

====
